---- MODULE Spec2Model ----
(***************************************************************************)
(* Gopher (fix-all-interactive.tsx): the workflow process supervisor       *)
(* (runWorkflowSession), the session orchestrator (runAllWorkflows), main  *)
(* and the Ink dashboard, as one state machine over the files of the state *)
(* directory.                                                              *)
(***************************************************************************)
EXTENDS Integers, Sequences, FiniteSets, TLC

\* ------------------------------------------------------------------ bounds

\* Largest number of workflows a selection holds.
MaxSelected == 2

\* Largest number of chunks the external process emits on one stream, when
\* one session is followed (MaxChunks) and when several run side by side
\* (MaxChunksAll).
MaxChunks == 2
MaxChunksAll == 1
\* Workflows on the dashboard when it is followed on its own.
MaxDashSelected == 3
\* Terminal heights the dashboard is rendered at.
SmallRows == 16
UsualRows == 24
\* Longest line of log text taken character by character.
MaxLineLen == 4

\* ------------------------------------------------------------ program data

WORKFLOW_ORDER == <<"type", "build", "test", "lint">>

Range(s) == {s[i] : i \in DOMAIN s}

Kinds == Range(WORKFLOW_ORDER)

\* A file that does not exist, and a file whose read throws.
Absent == "<absent>"
Unreadable == "<unreadable>"

\* The projects handed to main by the selection prompt.
Projects == <<"api", "web">>

\* String.prototype.trim on the status contents the model uses.
Trim(s) ==
  CASE s = "RUNNING\n" -> "RUNNING"
    [] s = " FAILED " -> "FAILED"
    [] s = "\n" -> ""
    [] OTHER -> s

\* Math.max, Math.min
Max(a, b) == IF a >= b THEN a ELSE b
Min(a, b) == IF a <= b THEN a ELSE b

Includes(seq, x) == \E i \in DOMAIN seq : seq[i] = x

\* The known workflows of the selection, in the order of the selection.
OrderedWorkflows_AsSelected(sel) ==
  SelectSeq(sel, LAMBDA w : Includes(WORKFLOW_ORDER, w))

\* WORKFLOW_ORDER.filter((w) => workflows.includes(w))
OrderedWorkflows(sel) == SelectSeq(WORKFLOW_ORDER, LAMBDA w : Includes(sel, w))

\* A slip: every status but COMPLETED counts as abandoned.
wasWorkflowAbandoned_NotCompleted(content) ==
  IF content \in {Absent, Unreadable} THEN FALSE ELSE Trim(content) # "COMPLETED"

\* wasWorkflowAbandoned / wasWorkflowAbandonedSync on the content of the
\* status file: a failed read is caught and answers false.
wasWorkflowAbandoned(content) ==
  IF content \in {Absent, Unreadable} THEN FALSE ELSE Trim(content) = "RUNNING"

\* buildWorkflowTodo: the prompt names the workflow and lists one TODO line
\* per project.
buildWorkflowTodo(w, projects) ==
  [workflow |-> w, todo |-> [i \in DOMAIN projects |-> <<i, projects[i]>>]]

\* No instruction text.
NoPrompt == [workflow |-> "<none>", todo |-> <<>>]

\* copilotArgs: ["--resume", ...] and ["-p", prompt, ...]
ResumeArgs == [resume |-> TRUE, prompt |-> NoPrompt]
FreshArgs(prompt) == [resume |-> FALSE, prompt |-> prompt]
NoArgs == [resume |-> FALSE, prompt |-> NoPrompt]

\* A file of the state directory: whether it exists and what it holds.
NoFile(empty) == [exists |-> FALSE, data |-> empty]
File(d) == [exists |-> TRUE, data |-> d]

\* The resume delimiter written to the log (its timestamp is not modelled).
Marker == <<"RESUMING WORKFLOW", 0>>

\* The log content a previous run left behind.
PriorLog == <<<<"prior", 0>>>>

IsPrefix(s, t) == Len(s) <= Len(t) /\ \A i \in DOMAIN s : s[i] = t[i]

Streams == {"stdout", "stderr"}

\* ------------------------------------------------------------------- state

VARIABLES
  workflows,        \* the selection main passes on
  maxEmit,          \* per stream: the most chunks the external tool writes
  mainPc,           \* main's position
  console,          \* number of writes to the process's console
  orchPc,           \* runAllWorkflows' position
  scanIdx,          \* index of the abandonment scan in orderedWorkflows
  abandonedWorkflows,
  resumeStatusFile, \* resume-status.txt
  workflowsFile,    \* selected-workflows.txt
  pc,               \* per workflow: position of its runWorkflowSession call
  shouldResume,
  copilotArgs,
  result,           \* per workflow: what the call returned
  logHandle,        \* per workflow: "none", "open", "closed"
  closeCount,       \* per workflow: calls of logFileHandle.close()
  drainPc,          \* per workflow and stream: position of the drain task
  emitted,          \* per workflow and stream: chunks read from the pipe
  chunk,            \* per workflow and stream: the chunk in hand
  proc,             \* per workflow: the external process
  spawnCount,       \* per workflow: calls of cmd.spawn() that succeeded
  exitCode,
  statusFile,
  logFile,
  promptFile,
  progressFile,
  statusAtCall,     \* per workflow: status file when the session was called
  logAtCall,        \* per workflow: log file when the session was called
  statusAtRun,      \* the status files when runAllWorkflows was called
  statusWrites,     \* per workflow: writeTextFile calls on its status file
  promptWrites,     \* per workflow: writeTextFile calls on its prompt file
  openMode,         \* per workflow: how Deno.open opened its log
  dashPc,           \* the Ink render loop
  selectedIndex,
  expandedSet,
  termRows,         \* process.stdout.rows (0: not known)
  mounted,          \* the rows' mount effects have run
  isResumed,        \* per workflow: WorkflowRow's isResumed
  logLines,         \* per workflow: WorkflowRow's logLines
  projects,         \* the projects prop of the dashboard and its rows
  status,           \* per workflow: status, as its row last rendered it
  taskStatus        \* per workflow: getProjectStatus of each project, as
                    \* its row last rendered them

superVars == <<workflows, maxEmit, mainPc, console, orchPc, scanIdx, abandonedWorkflows,
               resumeStatusFile, workflowsFile>>
callVars == <<statusAtCall, logAtCall, statusAtRun>>
traceVars == <<statusWrites, promptWrites, openMode>>
sessionVars == <<pc, shouldResume, copilotArgs, result, logHandle, closeCount,
                 drainPc, emitted, chunk, callVars, traceVars>>
procVars == <<proc, spawnCount, exitCode>>
fileVars == <<statusFile, logFile, promptFile, progressFile>>
shownVars == <<projects, status, taskStatus>>
rowVars == <<termRows, mounted, isResumed, logLines, shownVars>>
dashVars == <<dashPc, selectedIndex, expandedSet, rowVars>>

vars == <<superVars, sessionVars, procVars, fileVars, dashVars>>

ordered == OrderedWorkflows(workflows)

selected == Range(ordered)

\* Deno.exit(1) has not ended the program.
Live == mainPc # "exit1"

\* ------------------------------------------------ runWorkflowSession(w, _)

\* A fresh start that goes to the prompt without writing RUNNING.
SessionCheck_SkipsStatus(w) ==
  /\ Live
  /\ pc[w] = "check"
  /\ LET r == wasWorkflowAbandoned(statusFile[w]) IN
       /\ shouldResume' = [shouldResume EXCEPT ![w] = r]
       /\ copilotArgs' = [copilotArgs EXCEPT ![w] = IF r THEN ResumeArgs ELSE @]
       /\ pc' = [pc EXCEPT ![w] = IF r THEN "spawn" ELSE "promptWrite"]
  /\ UNCHANGED <<superVars, result, logHandle, closeCount, drainPc, emitted,
                 chunk, callVars, traceVars, procVars, fileVars, dashVars>>

\* const shouldResume = await wasWorkflowAbandoned(workflow), and the branch
\* on it up to the next await.
SessionCheck(w) ==
  /\ Live
  /\ pc[w] = "check"
  /\ LET r == wasWorkflowAbandoned(statusFile[w]) IN
       /\ shouldResume' = [shouldResume EXCEPT ![w] = r]
       /\ copilotArgs' = [copilotArgs EXCEPT ![w] = IF r THEN ResumeArgs ELSE @]
       /\ pc' = [pc EXCEPT ![w] = IF r THEN "spawn" ELSE "statusOpen"]
  /\ UNCHANGED <<superVars, result, logHandle, closeCount, drainPc, emitted,
                 chunk, callVars, traceVars, procVars, fileVars, dashVars>>

\* Deno.writeTextFile(statusFile, "RUNNING"): the file is opened with
\* truncate, then the text is written.
SessionStatusTrunc(w) ==
  /\ Live
  /\ pc[w] = "statusOpen"
  /\ statusFile' = [statusFile EXCEPT ![w] = ""]
  /\ pc' = [pc EXCEPT ![w] = "statusWrite"]
  /\ statusWrites' = [statusWrites EXCEPT ![w] = @ + 1]
  /\ UNCHANGED <<superVars, shouldResume, copilotArgs, result, logHandle,
                 closeCount, drainPc, emitted, chunk, callVars, promptWrites, openMode,
                 procVars, logFile, promptFile, progressFile, dashVars>>

SessionStatusWrite(w) ==
  /\ Live
  /\ pc[w] = "statusWrite"
  /\ statusFile' = [statusFile EXCEPT ![w] = "RUNNING"]
  /\ pc' = [pc EXCEPT ![w] = "promptWrite"]
  /\ UNCHANGED <<superVars, shouldResume, copilotArgs, result, logHandle,
                 closeCount, drainPc, emitted, chunk, callVars, traceVars,
                 procVars, logFile, promptFile, progressFile, dashVars>>

\* const prompt = buildWorkflowTodo(...); await Deno.writeTextFile(promptFile,
\* prompt); copilotArgs = ["-p", prompt, ...]
SessionPromptWrite(w) ==
  /\ Live
  /\ pc[w] = "promptWrite"
  /\ LET prompt == buildWorkflowTodo(w, Projects) IN
       /\ promptFile' = [promptFile EXCEPT ![w] = File(prompt)]
       /\ copilotArgs' = [copilotArgs EXCEPT ![w] = FreshArgs(prompt)]
  /\ pc' = [pc EXCEPT ![w] = "spawn"]
  /\ promptWrites' = [promptWrites EXCEPT ![w] = @ + 1]
  /\ UNCHANGED <<superVars, shouldResume, result, logHandle, closeCount,
                 drainPc, emitted, chunk, callVars, statusWrites, openMode, procVars,
                 statusFile, logFile, progressFile, dashVars>>

\* A slip: the session announces its start with console.log.
SessionSpawn_Logs(w) ==
  /\ Live
  /\ pc[w] = "spawn"
  /\ proc' = [proc EXCEPT ![w] = "alive"]
  /\ spawnCount' = [spawnCount EXCEPT ![w] = @ + 1]
  /\ pc' = [pc EXCEPT ![w] = "open"]
  /\ console' = console + 1
  /\ UNCHANGED <<workflows, maxEmit, mainPc, orchPc, scanIdx,
                 abandonedWorkflows, resumeStatusFile, workflowsFile, shouldResume, copilotArgs, result, logHandle,
                 closeCount, drainPc, emitted, chunk, callVars, traceVars,
                 exitCode, fileVars, dashVars>>

\* const process = cmd.spawn(), with stdout and stderr piped.
SessionSpawn(w) ==
  /\ Live
  /\ pc[w] = "spawn"
  /\ proc' = [proc EXCEPT ![w] = "alive"]
  /\ spawnCount' = [spawnCount EXCEPT ![w] = @ + 1]
  /\ pc' = [pc EXCEPT ![w] = "open"]
  /\ UNCHANGED <<superVars, shouldResume, copilotArgs, result, logHandle,
                 closeCount, drainPc, emitted, chunk, callVars, traceVars,
                 exitCode, fileVars, dashVars>>

\* What Deno.open(logFile, {write, create, truncate: !shouldResume,
\* append: shouldResume}) leaves in the file.
\* A slip: the log is truncated whatever the mode.
OpenedLog_Truncates(file, mode) == File(<<>>)

OpenedLog(file, mode) ==
  IF mode = "append" /\ file.exists THEN file ELSE File(<<>>)

\* truncate: !shouldResume, append: shouldResume
OpenMode(resume) == IF resume THEN "append" ELSE "truncate"

SessionOpenLog(w) ==
  /\ Live
  /\ pc[w] = "open"
  /\ openMode' = [openMode EXCEPT ![w] = OpenMode(shouldResume[w])]
  /\ logFile' = [logFile EXCEPT ![w] = OpenedLog(@, OpenMode(shouldResume[w]))]
  /\ logHandle' = [logHandle EXCEPT ![w] = "open"]
  /\ pc' = [pc EXCEPT ![w] = IF shouldResume[w] THEN "marker" ELSE "drain"]
  /\ UNCHANGED <<superVars, shouldResume, copilotArgs, result, closeCount,
                 drainPc, emitted, chunk, callVars, statusWrites, promptWrites, procVars,
                 statusFile, promptFile, progressFile, dashVars>>

\* await logFileHandle.write(encoder.encode(marker))
SessionWriteMarker(w) ==
  /\ Live
  /\ pc[w] = "marker"
  /\ logFile' = [logFile EXCEPT ![w] = File(Append(@.data, Marker))]
  /\ pc' = [pc EXCEPT ![w] = "drain"]
  /\ UNCHANGED <<superVars, shouldResume, copilotArgs, result, logHandle,
                 closeCount, drainPc, emitted, chunk, callVars, traceVars,
                 procVars, statusFile, promptFile, progressFile, dashVars>>

\* One reader.read() of writeStdout / writeStderr: a chunk while the pipe
\* has one, done once the process has closed the stream.
DrainRead(w, s) ==
  /\ Live
  /\ pc[w] = "drain"
  /\ drainPc[w][s] = "read"
  /\ \/ /\ proc[w] \in {"alive", "exited"}
        /\ emitted[w][s] < maxEmit[s]
        /\ emitted' = [emitted EXCEPT ![w][s] = @ + 1]
        /\ chunk' = [chunk EXCEPT ![w][s] = <<s, emitted[w][s] + 1>>]
        /\ drainPc' = [drainPc EXCEPT ![w][s] = "write"]
     \/ /\ proc[w] = "exited"
        /\ drainPc' = [drainPc EXCEPT ![w][s] = "done"]
        /\ UNCHANGED <<emitted, chunk>>
  /\ UNCHANGED <<superVars, pc, shouldResume, copilotArgs, result, logHandle,
                 closeCount, callVars, traceVars, procVars, fileVars,
                 dashVars>>

\* await logFileHandle.write(value)
DrainWrite(w, s) ==
  /\ Live
  /\ pc[w] = "drain"
  /\ drainPc[w][s] = "write"
  /\ logFile' = [logFile EXCEPT ![w] = File(Append(@.data, chunk[w][s]))]
  /\ chunk' = [chunk EXCEPT ![w][s] = <<>>]
  /\ drainPc' = [drainPc EXCEPT ![w][s] = "read"]
  /\ UNCHANGED <<superVars, pc, shouldResume, copilotArgs, result, logHandle,
                 closeCount, emitted, callVars, traceVars, procVars,
                 statusFile, promptFile, progressFile, dashVars>>

\* catch (e) { /* Stream closed */ }: a read or a write of the drain task
\* throws and the task ends.
DrainCatch(w, s) ==
  /\ Live
  /\ pc[w] = "drain"
  /\ drainPc[w][s] \in {"read", "write"}
  /\ chunk' = [chunk EXCEPT ![w][s] = <<>>]
  /\ drainPc' = [drainPc EXCEPT ![w][s] = "done"]
  /\ UNCHANGED <<superVars, pc, shouldResume, copilotArgs, result, logHandle,
                 closeCount, emitted, callVars, traceVars, procVars,
                 fileVars, dashVars>>

\* The codes the external tool can exit with.
ExitCodes == {0, 1}

\* status.success
Success(code) == code = 0

\* A retry: a process that exited with a failure is spawned again.
SessionAwaitExit_Retries(w) ==
  /\ Live
  /\ pc[w] = "drain"
  /\ \A s \in Streams : drainPc[w][s] = "done"
  /\ proc[w] = "exited"
  /\ \E c \in ExitCodes :
       /\ exitCode' = [exitCode EXCEPT ![w] = c]
       /\ pc' = [pc EXCEPT ![w] = IF Success(c) \/ spawnCount[w] > 1
                                   THEN "finalOpen" ELSE "spawn"]
  /\ UNCHANGED <<superVars, shouldResume, copilotArgs, result, logHandle,
                 closeCount, drainPc, emitted, chunk, callVars, traceVars,
                 proc, spawnCount, fileVars, dashVars>>

\* await Promise.all([writeStdout, writeStderr]);
\* const status = await process.status: the exit code of the process that
\* has exited becomes known to the session here.
SessionAwaitExit(w) ==
  /\ Live
  /\ pc[w] = "drain"
  /\ \A s \in Streams : drainPc[w][s] = "done"
  /\ proc[w] = "exited"
  /\ \E c \in ExitCodes : exitCode' = [exitCode EXCEPT ![w] = c]
  /\ pc' = [pc EXCEPT ![w] = "finalOpen"]
  /\ UNCHANGED <<superVars, shouldResume, copilotArgs, result, logHandle,
                 closeCount, drainPc, emitted, chunk, callVars, traceVars,
                 proc, spawnCount, fileVars, dashVars>>

\* A slip: the exit code is not looked at.
FinalStatus_IgnoresCode(code) == "COMPLETED"

FinalStatus(code) == IF Success(code) THEN "COMPLETED" ELSE "FAILED"

\* Deno.writeTextFile(statusFile, "COMPLETED" | "FAILED"): truncate ...
SessionFinalTrunc(w) ==
  /\ Live
  /\ pc[w] = "finalOpen"
  /\ statusFile' = [statusFile EXCEPT ![w] = ""]
  /\ pc' = [pc EXCEPT ![w] = "finalWrite"]
  /\ statusWrites' = [statusWrites EXCEPT ![w] = @ + 1]
  /\ UNCHANGED <<superVars, shouldResume, copilotArgs, result, logHandle,
                 closeCount, drainPc, emitted, chunk, callVars, promptWrites, openMode,
                 procVars, logFile, promptFile, progressFile, dashVars>>

\* A final write that also adds a closing line to the log.
SessionFinalWrite_LogsEnd(w) ==
  /\ Live
  /\ pc[w] = "finalWrite"
  /\ statusFile' = [statusFile EXCEPT ![w] = FinalStatus(exitCode[w])]
  /\ logFile' = [logFile EXCEPT ![w] = File(Append(@.data, <<"end", 0>>))]
  /\ result' = [result EXCEPT ![w] = IF Success(exitCode[w]) THEN "true" ELSE "false"]
  /\ logHandle' = [logHandle EXCEPT ![w] = "closed"]
  /\ closeCount' = [closeCount EXCEPT ![w] = @ + 1]
  /\ pc' = [pc EXCEPT ![w] = "returned"]
  /\ UNCHANGED <<superVars, shouldResume, copilotArgs, drainPc, emitted, chunk,
                 callVars, traceVars, procVars, promptFile, progressFile,
                 dashVars>>

\* ... then write; return status.success; finally logFileHandle.close()
SessionFinalWrite(w) ==
  /\ Live
  /\ pc[w] = "finalWrite"
  /\ statusFile' = [statusFile EXCEPT ![w] = FinalStatus(exitCode[w])]
  /\ result' = [result EXCEPT ![w] = IF Success(exitCode[w]) THEN "true" ELSE "false"]
  /\ logHandle' = [logHandle EXCEPT ![w] = "closed"]
  /\ closeCount' = [closeCount EXCEPT ![w] = @ + 1]
  /\ pc' = [pc EXCEPT ![w] = "returned"]
  /\ UNCHANGED <<superVars, shouldResume, copilotArgs, drainPc, emitted, chunk,
                 callVars, traceVars, procVars, logFile, promptFile,
                 progressFile, dashVars>>

\* The awaits of runWorkflowSession outside the drain tasks that can reject,
\* and whether the try block encloses them.
ThrowPoints == {"statusOpen", "statusWrite", "promptWrite", "spawn", "open",
                "marker", "finalOpen", "finalWrite"}
InTry(p) == p \in {"finalOpen", "finalWrite"}

\* An await (or cmd.spawn()) throws: the call rejects, running the finally
\* block when the try block had been entered.
SessionThrow(w) ==
  /\ Live
  /\ pc[w] \in ThrowPoints
  /\ pc' = [pc EXCEPT ![w] = "threw"]
  /\ logHandle' = [logHandle EXCEPT ![w] = IF InTry(pc[w]) THEN "closed" ELSE @]
  /\ closeCount' = [closeCount EXCEPT ![w] = IF InTry(pc[w]) THEN @ + 1 ELSE @]
  /\ UNCHANGED <<superVars, shouldResume, copilotArgs, result, drainPc,
                 emitted, chunk, callVars, traceVars, procVars, fileVars,
                 dashVars>>

\* -------------------------------------------------- the external process

\* The external tool exits, closing its stdout and stderr.
ProcExit(w) ==
  /\ proc[w] = "alive"
  /\ proc' = [proc EXCEPT ![w] = "exited"]
  /\ UNCHANGED <<superVars, sessionVars, spawnCount, exitCode, fileVars,
                 dashVars>>

\* The progress records the prompt asks the tool to write: before project i
\* starts, current_project is project i and completed_projects the projects
\* before it; at the end every project is completed.
Prefix(seq, n) == [i \in 1..n |-> seq[i]]

ProgressAt(i) ==
  [current_project |-> Projects[Min(i, Len(Projects))],
   current_task |-> Min(i, Len(Projects)),
   completed_projects |-> Prefix(Projects, i - 1)]

NextProgress(file) ==
  IF file.exists /\ \E i \in 1..(Len(Projects) + 1) : file.data = ProgressAt(i)
  THEN ProgressAt(Min(Len(Projects) + 1,
         1 + CHOOSE i \in 1..(Len(Projects) + 1) : file.data = ProgressAt(i)))
  ELSE ProgressAt(1)

\* The external tool rewrites its progress file.
ProcProgress(w) ==
  /\ proc[w] = "alive"
  /\ NextProgress(progressFile[w]) # progressFile[w].data
  /\ progressFile' = [progressFile EXCEPT ![w] = File(NextProgress(@))]
  /\ UNCHANGED <<superVars, sessionVars, procVars, statusFile, logFile,
                 promptFile, dashVars>>

\* ------------------------------------------------------- runAllWorkflows

\* const workflowPromises = orderedWorkflows.map((workflow) =>
\*   runWorkflowSession(workflow, projects)): every call runs up to its first
\* await, the read of its status file.
StartSessions ==
  /\ pc' = [w \in Kinds |-> IF w \in selected THEN "check" ELSE pc[w]]
  /\ statusAtCall' = [w \in Kinds |-> IF w \in selected THEN statusFile[w]
                                      ELSE statusAtCall[w]]
  /\ logAtCall' = [w \in Kinds |-> IF w \in selected THEN logFile[w]
                                   ELSE logAtCall[w]]
  /\ orchPc' = "join"

\* A slip: the loop stops one workflow short, the last is not looked at.
OrchScan_SkipsLast ==
  /\ Live
  /\ orchPc = "scan"
  /\ LET w == ordered[scanIdx]
         found == IF scanIdx < Len(ordered) /\ wasWorkflowAbandoned(statusFile[w])
                  THEN Append(abandonedWorkflows, w)
                  ELSE abandonedWorkflows
     IN
       /\ abandonedWorkflows' = found
       /\ IF scanIdx < Len(ordered)
          THEN /\ scanIdx' = scanIdx + 1
               /\ UNCHANGED <<orchPc, pc, statusAtCall, logAtCall>>
          ELSE /\ scanIdx' = scanIdx
               /\ IF Len(found) > 0
                  THEN /\ orchPc' = "resumeNote"
                       /\ UNCHANGED <<pc, statusAtCall, logAtCall>>
                  ELSE StartSessions
  /\ UNCHANGED <<workflows, maxEmit, mainPc, console, resumeStatusFile, workflowsFile,
                 shouldResume, copilotArgs, result, logHandle, closeCount,
                 drainPc, emitted, chunk, statusAtRun, traceVars, procVars,
                 fileVars, dashVars>>

\* One turn of the loop: if (await wasWorkflowAbandoned(workflow))
\* abandonedWorkflows.push(workflow); after the last turn, the branch on
\* abandonedWorkflows.length.
OrchScan ==
  /\ Live
  /\ orchPc = "scan"
  /\ LET w == ordered[scanIdx]
         found == IF wasWorkflowAbandoned(statusFile[w])
                  THEN Append(abandonedWorkflows, w)
                  ELSE abandonedWorkflows
     IN
       /\ abandonedWorkflows' = found
       /\ IF scanIdx < Len(ordered)
          THEN /\ scanIdx' = scanIdx + 1
               /\ UNCHANGED <<orchPc, pc, statusAtCall, logAtCall>>
          ELSE /\ scanIdx' = scanIdx
               /\ IF Len(found) > 0
                  THEN /\ orchPc' = "resumeNote"
                       /\ UNCHANGED <<pc, statusAtCall, logAtCall>>
                  ELSE StartSessions
  /\ UNCHANGED <<workflows, maxEmit, mainPc, console, resumeStatusFile, workflowsFile,
                 shouldResume, copilotArgs, result, logHandle, closeCount,
                 drainPc, emitted, chunk, statusAtRun, traceVars, procVars,
                 fileVars, dashVars>>

\* await Deno.writeTextFile(`${STATE_DIR}/resume-status.txt`, statusMsg)
OrchResumeNote ==
  /\ Live
  /\ orchPc = "resumeNote"
  /\ resumeStatusFile' = File(abandonedWorkflows)
  /\ StartSessions
  /\ UNCHANGED <<workflows, maxEmit, mainPc, console, scanIdx, abandonedWorkflows,
                 workflowsFile, shouldResume, copilotArgs, result, logHandle,
                 closeCount, drainPc, emitted, chunk, statusAtRun, traceVars,
                 procVars, fileVars, dashVars>>

\* await Promise.all(workflowPromises) fulfils: every call has returned.
OrchJoin ==
  /\ Live
  /\ orchPc = "join"
  /\ \A w \in selected : pc[w] = "returned"
  /\ orchPc' = "restore"
  /\ UNCHANGED <<workflows, maxEmit, mainPc, console, scanIdx, abandonedWorkflows,
                 resumeStatusFile, workflowsFile, sessionVars, procVars,
                 fileVars, dashVars>>

\* await Promise.all(workflowPromises) rejects: a call has thrown.
OrchReject ==
  /\ Live
  /\ orchPc = "join"
  /\ \E w \in selected : pc[w] = "threw"
  /\ orchPc' = "rejected"
  /\ UNCHANGED <<workflows, maxEmit, mainPc, console, scanIdx, abandonedWorkflows,
                 resumeStatusFile, workflowsFile, sessionVars, procVars,
                 fileVars, dashVars>>

\* await Deno.writeTextFile(WORKFLOWS_FILE, workflowsSnapshot.join("\n"))
OrchRestore ==
  /\ Live
  /\ orchPc = "restore"
  /\ workflowsFile' = File(workflows)
  /\ orchPc' = "done"
  /\ UNCHANGED <<workflows, maxEmit, mainPc, console, scanIdx, abandonedWorkflows,
                 resumeStatusFile, sessionVars, procVars, fileVars, dashVars>>

\* One of runAllWorkflows' own writes throws.
OrchThrow ==
  /\ Live
  /\ orchPc \in {"resumeNote", "restore"}
  /\ orchPc' = "rejected"
  /\ UNCHANGED <<workflows, maxEmit, mainPc, console, scanIdx, abandonedWorkflows,
                 resumeStatusFile, workflowsFile, sessionVars, procVars,
                 fileVars, dashVars>>

\* -------------------------------------------------------------------- main

\* The console.log calls before the dashboard starts ("Starting
\* workflows..."), the pause and console.clear().
MainAnnounce ==
  /\ mainPc = "announce"
  /\ console' = console + 1
  /\ mainPc' = "launch"
  /\ UNCHANGED <<workflows, maxEmit, orchPc, scanIdx, abandonedWorkflows,
                 resumeStatusFile, workflowsFile, sessionVars, procVars,
                 fileVars, dashVars>>

\* const workflowPromise = runAllWorkflows(workflows, projects), which runs
\* to its first await; render(React.createElement(Dashboard, ...)).
MainLaunch ==
  /\ mainPc = "launch"
  /\ orchPc' = "scan"
  /\ scanIdx' = 1
  /\ dashPc' = "rendering"
  /\ mainPc' = "race"
  /\ statusAtRun' = statusFile
  /\ UNCHANGED <<workflows, maxEmit, console, abandonedWorkflows,
                 resumeStatusFile, workflowsFile, pc, shouldResume, copilotArgs,
                 result, logHandle, closeCount, drainPc, emitted, chunk,
                 statusAtCall, logAtCall, traceVars, procVars, fileVars,
                 selectedIndex, expandedSet,
                 rowVars>>

\* await Promise.race([workflowPromise, waitUntilExit()]) settles. Fulfilled,
\* main goes on to its final console.log calls ("SESSION COMPLETE", "All
\* workflows completed", the log paths) and returns; rejected by
\* workflowPromise, main().catch prints the error and calls Deno.exit(1).
\* A wait on workflowPromise alone, in place of the race with the quit.
MainRace_AfterWorkflows ==
  /\ mainPc = "race"
  /\ \/ /\ orchPc = "done"
        /\ mainPc' = "done"
     \/ /\ orchPc = "rejected"
        /\ mainPc' = "exit1"
  /\ console' = console + 1
  /\ UNCHANGED <<workflows, maxEmit, orchPc, scanIdx, abandonedWorkflows,
                 resumeStatusFile, workflowsFile, sessionVars, procVars,
                 fileVars, dashVars>>

MainRace ==
  /\ mainPc = "race"
  /\ \/ /\ orchPc = "done" \/ dashPc = "exited"
        /\ mainPc' = "done"
     \/ /\ orchPc = "rejected"
        /\ mainPc' = "exit1"
  /\ console' = console + 1
  /\ UNCHANGED <<workflows, maxEmit, orchPc, scanIdx, abandonedWorkflows,
                 resumeStatusFile, workflowsFile, sessionVars, procVars,
                 fileVars, dashVars>>

\* --------------------------------------------------------------- Dashboard

\* orderedWorkflows[i] of JavaScript: undefined outside the array.
Undefined == "<undefined>"
At(seq, i) == IF i + 1 \in DOMAIN seq THEN seq[i + 1] ELSE Undefined

\* useInput is active while the Ink app is mounted.
InputActive == Live /\ dashPc = "rendering"

\* A quit that would mark the selected workflows FAILED.
KeyQuit_MarksFailed ==
  /\ Live /\ dashPc = "rendering"
  /\ dashPc' = "exited"
  /\ statusFile' = [w \in Kinds |-> IF w \in Range(workflows) THEN "FAILED"
                                     ELSE statusFile[w]]
  /\ UNCHANGED <<workflows, maxEmit, mainPc, console, orchPc, scanIdx,
                 abandonedWorkflows, resumeStatusFile, workflowsFile,
                 pc, shouldResume, copilotArgs, result, logHandle, closeCount,
                 drainPc, emitted, chunk, statusAtCall, logAtCall, statusAtRun,
                 statusWrites, promptWrites, openMode, proc, spawnCount,
                 exitCode, logFile, promptFile, progressFile, termRows, shownVars,
                 mounted, isResumed, logLines, selectedIndex, expandedSet>>

\* input === "q" || (key.ctrl && input === "c"): exit()
KeyQuit ==
  /\ InputActive
  /\ dashPc' = "exited"
  /\ UNCHANGED <<superVars, sessionVars, procVars, fileVars, rowVars,
                 selectedIndex, expandedSet>>

\* key.upArrow || input === "k"
MoveUp(count, index) == Max(0, index - 1)

KeyUp ==
  /\ InputActive
  /\ selectedIndex' = MoveUp(Len(ordered), selectedIndex)
  /\ UNCHANGED <<superVars, sessionVars, procVars, fileVars, rowVars,
                 dashPc, expandedSet>>

\* A move down without Math.min.
MoveDown_Unclamped(count, index) == index + 1

\* key.downArrow || input === "j"
MoveDown(count, index) == Min(count - 1, index + 1)

KeyDown ==
  /\ InputActive
  /\ selectedIndex' = MoveDown(Len(ordered), selectedIndex)
  /\ UNCHANGED <<superVars, sessionVars, procVars, fileVars, rowVars,
                 dashPc, expandedSet>>

\* input === " " || key.return || input === "l"
Toggle(set, workflow) ==
  IF workflow \in set THEN set \ {workflow} ELSE set \cup {workflow}

KeyToggle ==
  /\ InputActive
  /\ expandedSet' = Toggle(expandedSet, At(ordered, selectedIndex))
  /\ UNCHANGED <<superVars, sessionVars, procVars, fileVars, rowVars,
                 dashPc, selectedIndex>>

\* A collapse that closes every row.
Collapse_Every(set, workflow) == {}

\* input === "h"
Collapse(set, workflow) == set \ {workflow}

KeyCollapse ==
  /\ InputActive
  /\ expandedSet' = Collapse(expandedSet, At(ordered, selectedIndex))
  /\ UNCHANGED <<superVars, sessionVars, procVars, fileVars, rowVars,
                 dashPc, selectedIndex>>

\* An expand-all over every workflow kind.
ExpandAll_EveryKind(list) == Range(WORKFLOW_ORDER)

\* input === "e"
ExpandAll(list) == Range(list)

KeyExpandAll ==
  /\ InputActive
  /\ expandedSet' = ExpandAll(ordered)
  /\ UNCHANGED <<superVars, sessionVars, procVars, fileVars, rowVars,
                 dashPc, selectedIndex>>

\* input === "c"
KeyCollapseAll ==
  /\ InputActive
  /\ expandedSet' = {}
  /\ UNCHANGED <<superVars, sessionVars, procVars, fileVars, rowVars,
                 dashPc, selectedIndex>>

\* Calculate available height for logs: terminal height - header - footer
\* - workflow headers, divided equally among the expanded workflows.
DefaultRows == 40
HeaderHeight == 3
FooterHeight == 3
WorkflowHeaderHeight == 4

\* process.stdout.rows || 40
TerminalHeight(rows) == IF rows = 0 THEN DefaultRows ELSE rows

AvailableHeight(rows, count, expandedCount) ==
  TerminalHeight(rows) - HeaderHeight - FooterHeight
    - expandedCount * WorkflowHeaderHeight
    - (count - expandedCount) * WorkflowHeaderHeight

\* Math.floor(a / b) for b > 0
FloorDiv(a, b) == IF a >= 0 THEN a \div b ELSE -((-a + b - 1) \div b)

LogHeightPerWorkflow(rows, count, expandedCount) ==
  IF expandedCount > 0
  THEN FloorDiv(AvailableHeight(rows, count, expandedCount), expandedCount)
  ELSE 0

\* logHeight={expandedSet.has(workflow) ? logHeightPerWorkflow : 0}
LogHeight(w) ==
  IF w \in expandedSet
  THEN LogHeightPerWorkflow(termRows, Len(ordered), Cardinality(expandedSet))
  ELSE 0

\* A tail as long as the allocated height, without the two rows taken by the
\* project line and the padding.
LinesToShow_NoPadding(logHeight) == Max(1, logHeight)

\* const linesToShow = Math.max(1, logHeight - 2)
LinesToShow(logHeight) == Max(1, logHeight - 2)

\* The characters of log text: a line is a sequence of them.
ESC == "\\x1b"
CR == "\\r"
TAB == "\\t"
BEL == "\\x07"
DEL == "\\x7f"
LF == "\\n"
Digits == {"0", "1", "3"}
Letters == {"m", "K", "e", "r", "o", "k", "a", "p", "i", "w", "b", "d", "c",
            "s", "n", "t", "l", "A", "P", "I", "S", "D", "O", "N", "E"}
\* [\x00-\x08\x0B-\x0C\x0E-\x1F\x7F]
ControlChars == {ESC, BEL, DEL}
\* what trim() removes at the ends
WhiteSpace == {" ", TAB, CR, LF}

\* The end of the match of [0-9;]*[a-zA-Z] starting at i, or 0.
RECURSIVE AnsiEnd(_, _)
AnsiEnd(line, i) ==
  IF i > Len(line) THEN 0
  ELSE IF line[i] \in Digits \cup {";"} THEN AnsiEnd(line, i + 1)
  ELSE IF line[i] \in Letters THEN i
  ELSE 0

\* line.replace(/\x1b\[[0-9;]*[a-zA-Z]/g, "") from position i on
RECURSIVE StripAnsi(_, _)
StripAnsi(line, i) ==
  IF i > Len(line) THEN <<>>
  ELSE IF line[i] = ESC /\ i < Len(line) /\ line[i + 1] = "["
          /\ AnsiEnd(line, i + 2) > 0
       THEN StripAnsi(line, AnsiEnd(line, i + 2) + 1)
       ELSE <<line[i]>> \o StripAnsi(line, i + 1)

Without(line, chars) == SelectSeq(line, LAMBDA c : c \notin chars)

RECURSIVE TrimStart(_)
TrimStart(line) ==
  IF line # <<>> /\ Head(line) \in WhiteSpace THEN TrimStart(Tail(line)) ELSE line

RECURSIVE TrimEnd(_)
TrimEnd(line) ==
  IF line # <<>> /\ line[Len(line)] \in WhiteSpace
  THEN TrimEnd(SubSeq(line, 1, Len(line) - 1))
  ELSE line

\* A slip: the carriage returns are left in.
sanitizeLogLine_KeepsCR(line) ==
  TrimStart(TrimEnd(Without(StripAnsi(line, 1), ControlChars)))

sanitizeLogLine(line) ==
  TrimStart(TrimEnd(Without(Without(StripAnsi(line, 1), ControlChars), {CR})))

\* The text of the entries of a log, as the lines log.split("\n") yields:
\* the resume delimiter, a line an earlier run left, a chunk of a stream, a
\* line about projects, or a line given character by character.
Rule == <<"=", "=">>
Resuming == <<"r", "e", " ", "0", "1">>
\* Lines the external tool writes about projects.
LogTexts ==
  <<<<"a", "p", "i", " ", "d", "o", "n", "e">>,
    <<"A", "P", "I", ":", " ", "P", "A", "S", "S">>,
    <<"w", "e", "b">>,
    <<"d", "o", "n", "e", " ", "a", "p", "i">>,
    <<"c", "+", "+", " ", "d", "o", "n", "e">>,
    <<"d", "o", "c", "s", CR, "d", "o", "n", "e">>>>
TextLines(entry) ==
  CASE entry = Marker -> <<<<>>, <<>>, Rule, Resuming, Rule, <<>>>>
    [] entry[1] = "prior" -> <<<<"o", "k">>>>
    [] entry[1] = "stdout" -> <<<<ESC, "[", "3", "1", "m", "e", "r", "r", ESC, "[", "0", "m", CR>>>>
    [] entry[1] = "stderr" -> <<<<" ", CR>>, <<TAB, "e", "r", "r", BEL>>>>
    [] entry[1] = "text" -> <<LogTexts[entry[2]]>>
    [] entry[1] = "raw" -> <<entry[2]>>
    [] OTHER -> <<<<>>>>

RECURSIVE SplitLines(_)
SplitLines(data) ==
  IF data = <<>> THEN <<>> ELSE TextLines(Head(data)) \o SplitLines(Tail(data))

\* lines.map(sanitizeLogLine)
Sanitized(lines) == [i \in DOMAIN lines |-> sanitizeLogLine(lines[i])]

\* lines.slice(-n) for n >= 1
LastLines(lines, n) ==
  IF Len(lines) <= n THEN lines ELSE SubSeq(lines, Len(lines) - n + 1, Len(lines))

\* log.split("\n").map(sanitizeLogLine).filter((l) => l.length > 0)
\*   .slice(-linesToShow), and [] when the log cannot be read
TailOf(file, logHeight) ==
  IF ~file.exists THEN <<>>
  ELSE LastLines(SelectSeq(Sanitized(SplitLines(file.data)),
                           LAMBDA l : Len(l) > 0),
                 LinesToShow(logHeight))

\* The WorkflowRow components are mounted: useEffect(() => setIsResumed(
\* wasWorkflowAbandonedSync(workflow)), [workflow]) of every row.
DashMount ==
  /\ Live
  /\ dashPc = "rendering"
  /\ ~mounted
  /\ mounted' = TRUE
  /\ isResumed' = [w \in Kinds |-> IF w \in selected
                                   THEN wasWorkflowAbandoned(statusFile[w])
                                   ELSE isResumed[w]]
  /\ UNCHANGED <<superVars, sessionVars, procVars, fileVars, dashPc,
                 selectedIndex, expandedSet, termRows, logLines, shownVars>>

\* One firing of the 200 ms interval of an expanded row.
TailTick(w) ==
  /\ Live
  /\ dashPc = "rendering"
  /\ mounted
  /\ w \in selected
  /\ w \in expandedSet
  /\ logLines' = [logLines EXCEPT ![w] = TailOf(logFile[w], LogHeight(w))]
  /\ UNCHANGED <<superVars, sessionVars, procVars, fileVars, dashPc,
                 selectedIndex, expandedSet, termRows, mounted, isResumed,
                 shownVars>>

\* ------------------------------------------------------- project status

\* What getProjectStatus returns, and a call that ends in an exception.
Pass == "PASS"
Running == "RUNNING"
Pending == "PENDING"
Thrown == "<throws>"

\* The text of a progress file: a file made with File holds the JSON of the
\* record in data; a file with a form field holds something else.
\*   "empty", "notjson":  text JSON.parse rejects
\*   "falsy":             the JSON null (or 0, false, "")
\*   "number":            a JSON number other than 0
\*   "nofields":          {}
\*   "nocompleted":       an object with current_project only
\*   "completedNumber":   completed_projects is a number
\*   "nocurrent":         an object with completed_projects only
\*   "currentNumber":     current_project is a number
Form(file) ==
  IF ~file.exists THEN "missing"
  ELSE IF "form" \in DOMAIN file THEN file.form
  ELSE "record"

\* try { return JSON.parse(readTextFileSync(...)) } catch { return null }
getWorkflowProgress(file) ==
  [parsed |-> Form(file) \notin {"missing", "empty", "notjson"},
   form |-> Form(file),
   data |-> file.data]

\* if (progress)
Truthy(progress) == progress.parsed /\ progress.form # "falsy"

\* progress.completed_projects is an array; progress.current_project a string
HasCompleted(progress) ==
  progress.form \in {"record", "nocurrent", "currentNumber"}
HasCurrent(progress) ==
  progress.form \in {"record", "nocompleted", "completedNumber"}

\* The characters of a project name.
Chars(name) ==
  CASE name = "api" -> <<"a", "p", "i">>
    [] name = "web" -> <<"w", "e", "b">>
    [] name = "docs" -> <<"d", "o", "c", "s">>
    [] name = "c++" -> <<"c", "+", "+">>
    [] OTHER -> <<>>

\* toLowerCase, and the "i" flag of the RegExp
Lower(c) ==
  CASE c = "A" -> "a" [] c = "P" -> "p" [] c = "I" -> "i" [] c = "S" -> "s"
    [] c = "D" -> "d" [] c = "O" -> "o" [] c = "N" -> "n" [] c = "E" -> "e"
    [] OTHER -> c

LowerAll(text) == [i \in DOMAIN text |-> Lower(text[i])]

\* text.includes(part)
Contains(text, part) ==
  \E i \in 0..(Len(text) - Len(part)) :
    \A k \in 1..Len(part) : text[i + k] = part[k]

\* log.toLowerCase().includes(project.toLowerCase()): no name holds a
\* newline, so the name lies within one line of the log.
LogIncludes(lines, project) ==
  \E n \in DOMAIN lines :
    Contains(LowerAll(lines[n]), LowerAll(Chars(project)))

\* new RegExp(project + ".*(?:done|completed|pass)", "i") throws a
\* SyntaxError when a "+" of the name has nothing to repeat.
RegexValid(pat) ==
  \A i \in DOMAIN pat : pat[i] = "+" => i > 1 /\ pat[i - 1] # "+"

\* The positions after one match of the character c at a position of J.
Step(line, J, c) ==
  {j + 1 : j \in {k \in J : k <= Len(line) /\ Lower(line[k]) = Lower(c)}}

\* ... after one or more matches of c (c+), from the positions after one.
RECURSIVE Repeated(_, _, _)
Repeated(line, J, c) ==
  LET N == J \cup Step(line, J, c)
  IN IF N = J THEN J ELSE Repeated(line, N, c)

\* The positions after a match of pat[i..] that starts at a position of J.
RECURSIVE Ends(_, _, _, _)
Ends(pat, i, line, J) ==
  IF i > Len(pat) THEN J
  ELSE IF i < Len(pat) /\ pat[i + 1] = "+"
       THEN Ends(pat, i + 2, line, Repeated(line, Step(line, J, pat[i]), pat[i]))
       ELSE Ends(pat, i + 1, line, Step(line, J, pat[i]))

\* (?:done|completed|pass)
Keywords == {<<"d", "o", "n", "e">>,
             <<"c", "o", "m", "p", "l", "e", "t", "e", "d">>,
             <<"p", "a", "s", "s">>}

KeywordAt(line, k) ==
  \E kw \in Keywords :
    /\ k + Len(kw) - 1 <= Len(line)
    /\ \A i \in 1..Len(kw) : Lower(line[k + i - 1]) = kw[i]

\* log.match(...): the name, then any characters but line terminators,
\* then a keyword, all within one line of the log.
LineMatches(line, pat) ==
  \E start \in 1..Len(line) :
    \E e \in Ends(pat, 1, line, {start}) :
      \E k \in e..Len(line) :
        /\ KeywordAt(line, k)
        /\ \A i \in e..(k - 1) : line[i] # CR

LogMatches(lines, project) ==
  \E n \in DOMAIN lines : LineMatches(lines[n], Chars(project))

\* Fallback to log parsing; the catch takes a log that cannot be read and a
\* RegExp that cannot be built to the final return.
LogStatus(project, log) ==
  IF ~log.exists THEN Pending
  ELSE IF ~LogIncludes(SplitLines(log.data), project) THEN Pending
  ELSE IF ~RegexValid(Chars(project)) THEN Pending
  ELSE IF LogMatches(SplitLines(log.data), project) THEN Pass
  ELSE Running

\* A slip: current_project looked at before completed_projects.
getProjectStatus_CurrentFirst(project, progressOf, log) ==
  LET progress == getWorkflowProgress(progressOf)
  IN IF Truthy(progress) /\ ~HasCompleted(progress) THEN Thrown
     ELSE IF Truthy(progress) /\ HasCurrent(progress)
             /\ progress.data.current_project = project
     THEN Running
     ELSE IF Truthy(progress)
             /\ Includes(progress.data.completed_projects, project)
     THEN Pass
     ELSE LogStatus(project, log)

getProjectStatus(project, progressOf, log) ==
  LET progress == getWorkflowProgress(progressOf)
  IN IF Truthy(progress) /\ ~HasCompleted(progress) THEN Thrown
     ELSE IF Truthy(progress)
             /\ Includes(progress.data.completed_projects, project)
     THEN Pass
     ELSE IF Truthy(progress) /\ HasCurrent(progress)
             /\ progress.data.current_project = project
     THEN Running
     ELSE LogStatus(project, log)

\* status of a row: readTextFileSync(...).trim(), "PENDING" when it throws
RowStatus(content) ==
  IF content \in {Absent, Unreadable} THEN "PENDING" ELSE Trim(content)

\* const resumeMarker = isResumed && status === "RUNNING" ? " [RESUMED]" : ""
ResumeMarker(w) == isResumed[w] /\ status[w] = "RUNNING"

\* One render of the row of w: it reads the status file, and the progress
\* and log files for the status of each project. An exception of
\* getProjectStatus leaves the render and takes the Ink app down.
RowRender(w) ==
  /\ Live
  /\ dashPc = "rendering"
  /\ w \in selected
  /\ status' = [status EXCEPT ![w] = RowStatus(statusFile[w])]
  /\ taskStatus' = [taskStatus EXCEPT ![w] =
       [i \in DOMAIN projects |->
          getProjectStatus(projects[i], progressFile[w], logFile[w])]]
  /\ dashPc' = IF \E i \in DOMAIN projects : taskStatus'[w][i] = Thrown
               THEN "crashed" ELSE dashPc
  /\ UNCHANGED <<superVars, sessionVars, procVars, fileVars, selectedIndex,
                 expandedSet, termRows, mounted, isResumed, logLines, projects>>

\* ---------------------------------------------------------- specification

\* The selections the prompt returns: distinct workflow kinds, in any order.
Offered == {WORKFLOW_ORDER[i] : i \in 1..Min(MaxSelected, Len(WORKFLOW_ORDER))}

Selections ==
  {s \in UNION {[1..n -> Offered] : n \in 1..MaxSelected} :
     \A i, j \in DOMAIN s : i # j => s[i] # s[j]}

\* What an earlier run can have left for a workflow: nothing, or a status
\* with a log and a prompt.
StaleProgress ==
  [current_project |-> "web", current_task |-> 7,
   completed_projects |-> <<"api">>]
NoProgress ==
  [current_project |-> "", current_task |-> 0, completed_projects |-> <<>>]
OldPrompt == buildWorkflowTodo("<old>", <<>>)

InitStatuses == {Absent, "RUNNING"}

InitFiles ==
  /\ \E f \in [selected -> InitStatuses] :
       statusFile = [w \in Kinds |-> IF w \in selected THEN f[w]
                                     ELSE "COMPLETED"]
  /\ logFile = [w \in Kinds |-> IF statusFile[w] = Absent
                                THEN NoFile(<<>>) ELSE File(PriorLog)]
  /\ promptFile = [w \in Kinds |-> IF statusFile[w] = Absent
                                   THEN NoFile(NoPrompt) ELSE File(OldPrompt)]
  /\ progressFile = [w \in Kinds |-> IF statusFile[w] = Absent
                                     THEN NoFile(NoProgress)
                                     ELSE File(StaleProgress)]

InitIdle ==
  /\ console = 0
  /\ scanIdx = 0
  /\ abandonedWorkflows = <<>>
  /\ resumeStatusFile = NoFile(<<>>)
  /\ workflowsFile = File(workflows)
  /\ pc = [w \in Kinds |-> "idle"]
  /\ shouldResume = [w \in Kinds |-> FALSE]
  /\ copilotArgs = [w \in Kinds |-> NoArgs]
  /\ result = [w \in Kinds |-> "none"]
  /\ logHandle = [w \in Kinds |-> "none"]
  /\ closeCount = [w \in Kinds |-> 0]
  /\ drainPc = [w \in Kinds |-> [s \in Streams |-> "read"]]
  /\ emitted = [w \in Kinds |-> [s \in Streams |-> 0]]
  /\ chunk = [w \in Kinds |-> [s \in Streams |-> <<>>]]
  /\ proc = [w \in Kinds |-> "none"]
  /\ spawnCount = [w \in Kinds |-> 0]
  /\ exitCode = [w \in Kinds |-> -1]
  /\ statusAtCall = [w \in Kinds |-> Absent]
  /\ logAtCall = [w \in Kinds |-> NoFile(<<>>)]
  /\ statusAtRun = statusFile
  /\ statusWrites = [w \in Kinds |-> 0]
  /\ promptWrites = [w \in Kinds |-> 0]
  /\ openMode = [w \in Kinds |-> "none"]
  /\ dashPc = "off"
  /\ selectedIndex = 0
  /\ expandedSet = {}
  /\ termRows = DefaultRows
  /\ mounted = FALSE
  /\ isResumed = [w \in Kinds |-> FALSE]
  /\ logLines = [w \in Kinds |-> <<>>]
  /\ projects = Projects
  /\ status = [w \in Kinds |-> Undefined]
  /\ taskStatus = [w \in Kinds |-> <<>>]

\* main after the selection prompts, before "Starting workflows...".
Init ==
  /\ workflows \in Selections
  /\ maxEmit = [s \in Streams |-> IF s = "stdout" THEN MaxChunksAll ELSE 0]
  /\ InitFiles
  /\ mainPc = "announce"
  /\ orchPc = "idle"
  /\ InitIdle

Session(w) ==
  \/ SessionCheck(w)
  \/ SessionStatusTrunc(w)
  \/ SessionStatusWrite(w)
  \/ SessionPromptWrite(w)
  \/ SessionSpawn(w)
  \/ SessionOpenLog(w)
  \/ SessionWriteMarker(w)
  \/ \E s \in Streams : DrainRead(w, s) \/ DrainWrite(w, s) \/ DrainCatch(w, s)
  \/ SessionAwaitExit(w)
  \/ SessionFinalTrunc(w)
  \/ SessionFinalWrite(w)
  \/ SessionThrow(w)

Orchestrator == OrchScan \/ OrchResumeNote \/ OrchJoin \/ OrchReject
                  \/ OrchRestore \/ OrchThrow

Main == MainAnnounce \/ MainLaunch \/ MainRace

Keys == KeyQuit \/ KeyUp \/ KeyDown \/ KeyToggle \/ KeyCollapse
          \/ KeyExpandAll \/ KeyCollapseAll

Dashboard == Keys \/ DashMount \/ \E w \in Kinds : TailTick(w)

Next ==
  \/ Main
  \/ Orchestrator
  \/ \E w \in Kinds : Session(w)
  \/ \E w \in Kinds : ProcExit(w)
  \/ KeyQuit

Spec == Init /\ [][Next]_vars

\* main after "Yes, keep them": the selection is the non-blank lines of
\* selected-workflows.txt as they are, which a hand can have edited: lines
\* in any order, a line twice, a line that names no workflow. At least one
\* line names a workflow.
MaxKept == 3
UnknownKind == "deploy"

KeptSelections ==
  {s \in UNION {[1..n -> Offered \cup {UnknownKind}] : n \in 1..MaxKept} :
     \E i \in DOMAIN s : s[i] \in Kinds}

InitKept ==
  /\ workflows \in KeptSelections
  /\ maxEmit = [s \in Streams |-> IF s = "stdout" THEN MaxChunksAll ELSE 0]
  /\ InitFiles
  /\ mainPc = "announce"
  /\ orchPc = "idle"
  /\ InitIdle

SpecKept == InitKept /\ [][Next]_vars

\* main with a single workflow selected, and every key and timer of the
\* dashboard next to the session.
InitWatch == Init /\ Len(workflows) = 1

NextWatch == Next \/ Dashboard \/ \E w \in Kinds : RowRender(w)

SpecWatch == InitWatch /\ [][NextWatch]_vars

\* The program when the event loop runs main's continuation once the
\* promise it awaits has settled; no session is bound to make progress.
SpecQuit == Init /\ [][Next]_vars /\ WF_vars(MainRace)

\* The program under fair scheduling: the event loop runs every
\* continuation of main, of runAllWorkflows and of each session whose await
\* has settled. Nothing makes an external process exit.
SpecFair ==
  /\ Init
  /\ [][Next]_vars
  /\ WF_vars(Main)
  /\ WF_vars(Orchestrator)
  /\ \A w \in Offered : WF_vars(Session(w))

\* A run over what an earlier run of the same workflow has left: its last
\* status (a run that ended, or one that was abandoned), its log, which can
\* name a project, and the progress file of the external tool, if it wrote
\* one.
StaleLog == <<<<"text", 1>>>>

InitStaleFiles ==
  /\ \E st \in {"FAILED", "RUNNING"} :
       statusFile = [w \in Kinds |-> IF w \in selected THEN st ELSE "COMPLETED"]
  /\ \E lg \in {PriorLog, StaleLog} :
       logFile = [w \in Kinds |-> File(lg)]
  /\ promptFile = [w \in Kinds |-> File(OldPrompt)]
  /\ \E pg \in {NoFile(NoProgress), File(StaleProgress)} :
       progressFile = [w \in Kinds |-> pg]

InitStale ==
  /\ workflows \in Selections
  /\ Len(workflows) = 1
  /\ maxEmit = [s \in Streams |-> IF s = "stdout" THEN MaxChunksAll ELSE 0]
  /\ InitStaleFiles
  /\ mainPc = "announce"
  /\ orchPc = "idle"
  /\ InitIdle

SpecStale == InitStale /\ [][NextWatch]_vars

\* The dashboard on its own, rendering over the files a run has left.
DashSelections ==
  {s \in UNION {[1..n -> Kinds] : n \in 1..MaxDashSelected} :
     \A i, j \in DOMAIN s : i # j => s[i] # s[j]}

\* process.stdout.rows: undefined (0 here), a small and a usual terminal.
DashRows == {0, SmallRows, UsualRows}

LongLog ==
  PriorLog \o <<Marker, <<"stdout", 1>>, <<"stderr", 1>>, <<"stdout", 2>>>>

InitDashFiles ==
  /\ \E st \in {Absent, "RUNNING\n"} :
       statusFile = [w \in Kinds |-> IF w \in selected THEN st ELSE "COMPLETED"]
  /\ \E lg \in {NoFile(<<>>), File(LongLog)} :
       logFile = [w \in Kinds |-> IF w \in selected THEN lg ELSE File(PriorLog)]
  /\ promptFile = [w \in Kinds |-> File(OldPrompt)]
  /\ progressFile = [w \in Kinds |-> File(StaleProgress)]

InitDash ==
  /\ workflows \in DashSelections
  /\ maxEmit = [s \in Streams |-> 0]
  /\ InitDashFiles
  /\ mainPc = "direct"
  /\ orchPc = "direct"
  /\ console = 0
  /\ scanIdx = 0
  /\ abandonedWorkflows = <<>>
  /\ resumeStatusFile = NoFile(<<>>)
  /\ workflowsFile = File(workflows)
  /\ pc = [w \in Kinds |-> "idle"]
  /\ shouldResume = [w \in Kinds |-> FALSE]
  /\ copilotArgs = [w \in Kinds |-> NoArgs]
  /\ result = [w \in Kinds |-> "none"]
  /\ logHandle = [w \in Kinds |-> "none"]
  /\ closeCount = [w \in Kinds |-> 0]
  /\ drainPc = [w \in Kinds |-> [s \in Streams |-> "read"]]
  /\ emitted = [w \in Kinds |-> [s \in Streams |-> 0]]
  /\ chunk = [w \in Kinds |-> [s \in Streams |-> <<>>]]
  /\ proc = [w \in Kinds |-> "none"]
  /\ spawnCount = [w \in Kinds |-> 0]
  /\ exitCode = [w \in Kinds |-> -1]
  /\ statusAtCall = statusFile
  /\ logAtCall = logFile
  /\ statusAtRun = statusFile
  /\ statusWrites = [w \in Kinds |-> 0]
  /\ promptWrites = [w \in Kinds |-> 0]
  /\ openMode = [w \in Kinds |-> "none"]
  /\ dashPc = "rendering"
  /\ selectedIndex = 0
  /\ expandedSet = {}
  /\ termRows \in DashRows
  /\ mounted = FALSE
  /\ isResumed = [w \in Kinds |-> FALSE]
  /\ logLines = [w \in Kinds |-> <<>>]
  /\ projects = Projects
  /\ status = [w \in Kinds |-> Undefined]
  /\ taskStatus = [w \in Kinds |-> <<>>]

NextDash == Dashboard

SpecDash == InitDash /\ [][NextDash]_vars

\* The dashboard following logs that come and go: between two ticks a log is
\* removed or made unreadable, or is back (Deno.readTextFileSync throws on
\* the first, reads on the second).
LogAccess(w) ==
  /\ Live
  /\ w \in selected
  /\ logFile' = [logFile EXCEPT ![w] = [exists |-> ~logFile[w].exists,
                                        data |-> logFile[w].data]]
  /\ UNCHANGED <<superVars, sessionVars, procVars, statusFile, promptFile,
                 progressFile, dashVars>>

InitFollow == InitDash /\ Len(workflows) <= MaxSelected

NextFollow == Dashboard \/ \E w \in Kinds : LogAccess(w)

\* The tick that ends in the catch branch: setLogLines([]).
TickUnreadable(w) == ~logFile[w].exists /\ TailTick(w)

\* setInterval fires the tick of an expanded row every 200 ms for as long
\* as the row stays expanded, so a tick falls while a log stays unreadable.
SpecFollow ==
  /\ InitFollow
  /\ [][NextFollow]_vars
  /\ \A w \in Kinds : WF_vars(TickUnreadable(w))

\* Every content the status file of the called workflow can hold.
SessionStatuses == {Absent, Unreadable, "", "PENDING", "RUNNING", "RUNNING\n",
                    "COMPLETED", "FAILED", " FAILED "}

InitSessionFiles ==
  /\ \E st \in SessionStatuses :
       statusFile = [w \in Kinds |-> IF w \in selected THEN st ELSE "COMPLETED"]
  /\ \E old \in BOOLEAN :
       /\ logFile = [w \in Kinds |-> IF w \in selected /\ ~old
                                     THEN NoFile(<<>>) ELSE File(PriorLog)]
       /\ promptFile = [w \in Kinds |-> IF w \in selected /\ ~old
                                        THEN NoFile(NoPrompt) ELSE File(OldPrompt)]
       /\ progressFile = [w \in Kinds |-> IF w \in selected /\ ~old
                                          THEN NoFile(NoProgress)
                                          ELSE File(StaleProgress)]

\* One call runWorkflowSession(w, projects), followed on its own.
InitSession ==
  /\ \E w \in Kinds : workflows = <<w>>
  /\ maxEmit = [s \in Streams |-> MaxChunks]
  /\ InitSessionFiles
  /\ mainPc = "direct"
  /\ orchPc = "direct"
  /\ console = 0
  /\ scanIdx = 0
  /\ abandonedWorkflows = <<>>
  /\ resumeStatusFile = NoFile(<<>>)
  /\ workflowsFile = File(workflows)
  /\ pc = [w \in Kinds |-> IF w \in selected THEN "check" ELSE "idle"]
  /\ shouldResume = [w \in Kinds |-> FALSE]
  /\ copilotArgs = [w \in Kinds |-> NoArgs]
  /\ result = [w \in Kinds |-> "none"]
  /\ logHandle = [w \in Kinds |-> "none"]
  /\ closeCount = [w \in Kinds |-> 0]
  /\ drainPc = [w \in Kinds |-> [s \in Streams |-> "read"]]
  /\ emitted = [w \in Kinds |-> [s \in Streams |-> 0]]
  /\ chunk = [w \in Kinds |-> [s \in Streams |-> <<>>]]
  /\ proc = [w \in Kinds |-> "none"]
  /\ spawnCount = [w \in Kinds |-> 0]
  /\ exitCode = [w \in Kinds |-> -1]
  /\ statusAtCall = statusFile
  /\ logAtCall = logFile
  /\ statusAtRun = statusFile
  /\ statusWrites = [w \in Kinds |-> 0]
  /\ promptWrites = [w \in Kinds |-> 0]
  /\ openMode = [w \in Kinds |-> "none"]
  /\ dashPc = "off"
  /\ selectedIndex = 0
  /\ expandedSet = {}
  /\ termRows = DefaultRows
  /\ mounted = FALSE
  /\ isResumed = [w \in Kinds |-> FALSE]
  /\ logLines = [w \in Kinds |-> <<>>]
  /\ projects = Projects
  /\ status = [w \in Kinds |-> Undefined]
  /\ taskStatus = [w \in Kinds |-> <<>>]

NextSession == \E w \in Kinds : Session(w) \/ ProcExit(w) \/ ProcProgress(w)

SpecSession == InitSession /\ [][NextSession]_vars

\* The rows of the dashboard rendered over whatever the progress, log and
\* status files hold.
ProjectLists == {<<"api", "web", "docs">>, <<"c++">>}

Malformed(form, record) == [exists |-> TRUE, data |-> record, form |-> form]

MalformedForms == {"empty", "notjson", "falsy", "number", "nofields",
                   "nocompleted", "completedNumber", "nocurrent",
                   "currentNumber"}

BothProgress ==
  [current_project |-> "api", current_task |-> 1,
   completed_projects |-> <<"api">>]

ProgressInputs ==
  {NoFile(NoProgress), File(StaleProgress), File(BothProgress)}
    \cup {Malformed(f, StaleProgress) : f \in MalformedForms}

LogInputs ==
  {NoFile(<<>>), File(<<>>), File(<<<<"text", 3>>, <<"text", 1>>>>)}
    \cup {File(<<<<"text", k>>>>) : k \in DOMAIN LogTexts}

InitRenderFiles ==
  /\ \E st \in SessionStatuses :
       statusFile = [w \in Kinds |-> IF w \in selected THEN st ELSE "COMPLETED"]
  /\ \E lg \in LogInputs :
       logFile = [w \in Kinds |-> IF w \in selected THEN lg ELSE File(PriorLog)]
  /\ promptFile = [w \in Kinds |-> File(OldPrompt)]
  /\ \E pr \in ProgressInputs :
       progressFile = [w \in Kinds |-> IF w \in selected THEN pr
                                       ELSE File(StaleProgress)]

InitRender ==
  /\ \E w \in Kinds : workflows = <<w>>
  /\ maxEmit = [s \in Streams |-> 0]
  /\ InitRenderFiles
  /\ mainPc = "direct"
  /\ orchPc = "direct"
  /\ console = 0
  /\ scanIdx = 0
  /\ abandonedWorkflows = <<>>
  /\ resumeStatusFile = NoFile(<<>>)
  /\ workflowsFile = File(workflows)
  /\ pc = [w \in Kinds |-> "idle"]
  /\ shouldResume = [w \in Kinds |-> FALSE]
  /\ copilotArgs = [w \in Kinds |-> NoArgs]
  /\ result = [w \in Kinds |-> "none"]
  /\ logHandle = [w \in Kinds |-> "none"]
  /\ closeCount = [w \in Kinds |-> 0]
  /\ drainPc = [w \in Kinds |-> [s \in Streams |-> "read"]]
  /\ emitted = [w \in Kinds |-> [s \in Streams |-> 0]]
  /\ chunk = [w \in Kinds |-> [s \in Streams |-> <<>>]]
  /\ proc = [w \in Kinds |-> "none"]
  /\ spawnCount = [w \in Kinds |-> 0]
  /\ exitCode = [w \in Kinds |-> -1]
  /\ statusAtCall = statusFile
  /\ logAtCall = logFile
  /\ statusAtRun = statusFile
  /\ statusWrites = [w \in Kinds |-> 0]
  /\ promptWrites = [w \in Kinds |-> 0]
  /\ openMode = [w \in Kinds |-> "none"]
  /\ dashPc = "rendering"
  /\ selectedIndex = 0
  /\ expandedSet = {}
  /\ termRows = DefaultRows
  /\ mounted = TRUE
  /\ isResumed = [w \in Kinds |-> FALSE]
  /\ logLines = [w \in Kinds |-> <<>>]
  /\ projects \in ProjectLists
  /\ status = [w \in Kinds |-> Undefined]
  /\ taskStatus = [w \in Kinds |-> <<>>]


\* The dashboard over a log of one line, for every short line of the
\* characters sanitizeLogLine tells apart.
LineChars == {ESC, "[", "3", ";", "m", "e", CR, TAB, " ", BEL}

RawLines == UNION {[1..n -> LineChars] : n \in 0..MaxLineLen}

\* "\x1b[31merror\x1b[0m\r\n", and the line of it left by split("\n")
ErrorText ==
  <<ESC, "[", "3", "1", "m", "e", "r", "r", "o", "r", ESC, "[", "0", "m", CR, LF>>
ErrorLine == SubSeq(ErrorText, 1, Len(ErrorText) - 1)

InitTailFiles ==
  /\ statusFile = [w \in Kinds |-> "COMPLETED"]
  /\ \E line \in RawLines \cup {ErrorLine} :
       logFile = [w \in Kinds |-> IF w \in selected
                                  THEN File(<<<<"raw", line>>, <<"raw", <<>>>>>>)
                                  ELSE File(PriorLog)]
  /\ promptFile = [w \in Kinds |-> File(OldPrompt)]
  /\ progressFile = [w \in Kinds |-> File(StaleProgress)]

InitTail ==
  /\ workflows = <<WORKFLOW_ORDER[1]>>
  /\ maxEmit = [s \in Streams |-> 0]
  /\ InitTailFiles
  /\ mainPc = "direct"
  /\ orchPc = "direct"
  /\ console = 0
  /\ scanIdx = 0
  /\ abandonedWorkflows = <<>>
  /\ resumeStatusFile = NoFile(<<>>)
  /\ workflowsFile = File(workflows)
  /\ pc = [w \in Kinds |-> "idle"]
  /\ shouldResume = [w \in Kinds |-> FALSE]
  /\ copilotArgs = [w \in Kinds |-> NoArgs]
  /\ result = [w \in Kinds |-> "none"]
  /\ logHandle = [w \in Kinds |-> "none"]
  /\ closeCount = [w \in Kinds |-> 0]
  /\ drainPc = [w \in Kinds |-> [s \in Streams |-> "read"]]
  /\ emitted = [w \in Kinds |-> [s \in Streams |-> 0]]
  /\ chunk = [w \in Kinds |-> [s \in Streams |-> <<>>]]
  /\ proc = [w \in Kinds |-> "none"]
  /\ spawnCount = [w \in Kinds |-> 0]
  /\ exitCode = [w \in Kinds |-> -1]
  /\ statusAtCall = statusFile
  /\ logAtCall = logFile
  /\ statusAtRun = statusFile
  /\ statusWrites = [w \in Kinds |-> 0]
  /\ promptWrites = [w \in Kinds |-> 0]
  /\ openMode = [w \in Kinds |-> "none"]
  /\ dashPc = "rendering"
  /\ selectedIndex = 0
  /\ expandedSet = {}
  /\ termRows = DefaultRows
  /\ mounted = FALSE
  /\ isResumed = [w \in Kinds |-> FALSE]
  /\ logLines = [w \in Kinds |-> <<>>]
  /\ projects = Projects
  /\ status = [w \in Kinds |-> Undefined]
  /\ taskStatus = [w \in Kinds |-> <<>>]

NextTail == Dashboard

SpecTail == InitTail /\ [][NextTail]_vars

NextRender == \E w \in Kinds : RowRender(w)

SpecRender == InitRender /\ [][NextRender]_vars


\* -------------------------------------------------------------- properties

Terminal == {"COMPLETED", "FAILED"}

\* The status contents that read as RUNNING.
ReadsRunning(content) == content \in {"RUNNING", "RUNNING\n"}

\* The session of w is past the resume decision.
Decided(w) == pc[w] \notin {"idle", "check"}

\* C1: whenever runWorkflowSession(w) has returned, the status of w is
\* COMPLETED and the call returned true if the process exited with code 0,
\* and FAILED with false otherwise; it is never RUNNING or PENDING then.
C1_ReturnedStatus ==
  \A w \in Kinds :
    pc[w] = "returned" =>
      /\ statusFile[w] \notin {"RUNNING", "PENDING", "", Absent}
      /\ IF exitCode[w] = 0
         THEN statusFile[w] = "COMPLETED" /\ result[w] = "true"
         ELSE statusFile[w] = "FAILED" /\ result[w] = "false"

C1_Witness ==
  \E w \in Kinds :
    /\ pc[w] = "returned"
    /\ exitCode[w] = 1
    /\ statusAtCall[w] = "RUNNING"
    /\ statusFile[w] = "FAILED"

\* C2: the session resumes exactly when the status read RUNNING at the call.
\* Resumed, the tool gets the resume flag and no instruction text, and the
\* status and prompt files stay unwritten until the process has exited.
\* Otherwise the status is set to RUNNING, the prompt is written (and handed
\* to the tool) before the spawn, and the log is opened in truncate mode.
C2_ResumeDecision ==
  \A w \in Kinds :
    Decided(w) =>
      /\ shouldResume[w] <=> ReadsRunning(statusAtCall[w])
      /\ shouldResume[w] =>
           /\ copilotArgs[w] = [resume |-> TRUE, prompt |-> NoPrompt]
           /\ proc[w] # "exited" =>
                /\ statusWrites[w] = 0 /\ statusFile[w] = statusAtCall[w]
                /\ promptWrites[w] = 0
           /\ openMode[w] \in {"none", "append"}
      /\ ~shouldResume[w] /\ pc[w] \notin {"statusOpen", "statusWrite", "threw"} =>
           statusWrites[w] >= 1
      /\ ~shouldResume[w] /\ pc[w] \in {"promptWrite", "spawn", "open", "drain"} =>
           statusFile[w] = "RUNNING"
      /\ ~shouldResume[w] /\ proc[w] # "none" =>
           /\ promptFile[w] = File(buildWorkflowTodo(w, Projects))
           /\ copilotArgs[w] =
                [resume |-> FALSE, prompt |-> buildWorkflowTodo(w, Projects)]
      /\ ~shouldResume[w] => openMode[w] \in {"none", "truncate"}
      /\ ~shouldResume[w] /\ pc[w] = "drain" =>
           openMode[w] = "truncate" /\ logFile[w].exists

C2_Witness ==
  \E w \in Kinds :
    /\ statusAtCall[w] = "RUNNING\n"
    /\ shouldResume[w]
    /\ pc[w] = "drain"
    /\ proc[w] = "alive"

\* C3: if the status read RUNNING at the call, the log keeps the content it
\* had at the call as a prefix in every later state of the session, and what
\* follows that content starts with the resume delimiter.
C3_ResumeAppends ==
  \A w \in Kinds :
    ReadsRunning(statusAtCall[w]) /\ pc[w] # "idle" =>
      /\ logAtCall[w].exists => logFile[w].exists
      /\ IsPrefix(logAtCall[w].data, logFile[w].data)
      /\ Len(logFile[w].data) > Len(logAtCall[w].data) =>
           logFile[w].data[Len(logAtCall[w].data) + 1] = Marker
      /\ pc[w] \in {"drain", "finalOpen", "finalWrite", "returned"} =>
           Len(logFile[w].data) > Len(logAtCall[w].data)

C3_Witness ==
  \E w \in Kinds :
    /\ ReadsRunning(statusAtCall[w])
    /\ logAtCall[w] = File(PriorLog)
    /\ logFile[w].data = PriorLog \o <<Marker, <<"stderr", 1>>, <<"stdout", 1>>>>

\* C4: runAllWorkflows is over (its promise fulfilled or rejected) only when
\* the call of every selected workflow has ended and every selected status
\* is COMPLETED or FAILED.
C4_CompletesAfterAll ==
  orchPc \in {"restore", "done", "rejected"} =>
    \A w \in selected :
      pc[w] \in {"returned", "threw"} /\ statusFile[w] \in Terminal

\* C4, for sessions that end by returning: runAllWorkflows gets past its
\* Promise.all only when every selected workflow's call has returned and
\* every selected status is COMPLETED or FAILED; and the step in which one
\* session returns false leaves runAllWorkflows where it is and every other
\* workflow's session, process and files as they are.
C4_AllReturned ==
  orchPc \in {"restore", "done"} =>
    \A w \in selected : pc[w] = "returned" /\ statusFile[w] \in Terminal

C4_FailureStep ==
  \A w \in Kinds :
    pc[w] # "returned" /\ pc'[w] = "returned" /\ result'[w] = "false" =>
      /\ orchPc' = orchPc
      /\ \A v \in Kinds \ {w} :
           /\ pc'[v] = pc[v] /\ proc'[v] = proc[v]
           /\ statusFile'[v] = statusFile[v] /\ logFile'[v] = logFile[v]

C4_JoinAll == [](C4_AllReturned) /\ [][C4_FailureStep]_vars

\* One session has thrown at its spawn, runAllWorkflows has rejected on it,
\* and another session is still draining a live process.
C4_Witness ==
  /\ orchPc = "rejected"
  /\ \E w, v \in selected :
       /\ pc[w] = "threw" /\ proc[w] = "none" /\ statusFile[w] = "RUNNING"
       /\ pc[v] = "drain" /\ proc[v] = "alive" /\ statusFile[v] = "RUNNING"

\* C5: while runAllWorkflows scans, no session has started or written a
\* status; once the scan is over, the recorded abandoned workflows are the
\* selected workflows whose status read RUNNING when runAllWorkflows was
\* called, and a session resumes exactly when its workflow is recorded.
C5_ScanBeforeSessions ==
  /\ orchPc \in {"scan", "resumeNote"} =>
       \A w \in Kinds : pc[w] = "idle" /\ statusWrites[w] = 0
  /\ orchPc \in {"resumeNote", "join", "restore", "done", "rejected"} =>
       /\ Range(abandonedWorkflows) =
            {w \in selected : ReadsRunning(statusAtRun[w])}
       /\ \A w \in selected :
            Decided(w) => (shouldResume[w] <=> Includes(abandonedWorkflows, w))

C5_Witness ==
  /\ orchPc = "join"
  /\ Len(abandonedWorkflows) = 1
  /\ \E w, v \in selected :
       /\ Decided(w) /\ shouldResume[w]
       /\ Decided(v) /\ ~shouldResume[v] /\ statusWrites[v] = 1

\* C7: a step of runWorkflowSession(w) leaves the status, log and prompt
\* files of every other workflow, every progress file and the console as
\* they are, and changes the prompt file of w only on a fresh start.
C7_SessionStep ==
  \A w \in Kinds :
    Session(w) =>
      /\ \A v \in Kinds \ {w} :
           /\ statusFile'[v] = statusFile[v]
           /\ logFile'[v] = logFile[v]
           /\ promptFile'[v] = promptFile[v]
      /\ progressFile' = progressFile
      /\ console' = console
      /\ resumeStatusFile' = resumeStatusFile
      /\ workflowsFile' = workflowsFile
      /\ promptFile'[w] # promptFile[w] => ~shouldResume[w]

C7_SessionFrame == [][C7_SessionStep]_vars

C7_Witness ==
  \E w, v \in selected :
    /\ pc[w] = "returned" /\ statusFile[w] # statusAtRun[w]
    /\ pc[v] = "check" /\ statusFile[v] = statusAtRun[v]
    /\ console = 1

\* C8: while the dashboard is rendering, no step writes to the console.
C8_SilentWhileRendering == [][dashPc = "rendering" => console' = console]_vars

\* C6: a step of the dashboard (a key, quit included, the mount of the rows,
\* a tick of a log tail) leaves every status, log, prompt and progress file as
\* it is, and a status file changes only in a step of the session of its own
\* workflow.
C6_DashboardStep ==
  /\ Dashboard \/ dashVars' # dashVars => fileVars' = fileVars
  /\ \A w \in Kinds :
       statusFile'[w] # statusFile[w] =>
         /\ Session(w)
         /\ pc[w] \in {"statusOpen", "statusWrite", "finalOpen", "finalWrite"}

C6_DashboardReadsOnly == [][C6_DashboardStep]_vars

C6_Witness ==
  \E w \in selected :
    /\ dashPc = "exited"
    /\ mounted
    /\ expandedSet = {w}
    /\ logLines[w] # <<>>
    /\ pc[w] = "finalWrite"
    /\ statusWrites[w] = 2

\* C9: selectedIndex is always between 0 and count - 1, count the length of
\* the ordered selected-workflow list; a key moves it by at most one, up at
\* index 0 leaves it at 0 and down at index count - 1 leaves it at count - 1.
C9_ValidIndex == selectedIndex \in 0..(Len(ordered) - 1)

C9_KeyStep ==
  /\ selectedIndex' - selectedIndex \in {-1, 0, 1}
  /\ KeyUp /\ selectedIndex = 0 => selectedIndex' = 0
  /\ KeyDown /\ selectedIndex = Len(ordered) - 1 =>
       selectedIndex' = Len(ordered) - 1
  /\ KeyUp /\ selectedIndex > 0 => selectedIndex' = selectedIndex - 1
  /\ KeyDown /\ selectedIndex < Len(ordered) - 1 =>
       selectedIndex' = selectedIndex + 1

C9_IndexInRange == [](C9_ValidIndex) /\ [][C9_KeyStep]_vars

C9_Witness ==
  /\ Len(ordered) = MaxDashSelected
  /\ selectedIndex = Len(ordered) - 1
  /\ expandedSet = {At(ordered, 0)}

\* C10: expandedSet holds only workflows of the ordered selected-workflow
\* list the dashboard renders.
C10_ExpandedSelected == expandedSet \subseteq Range(ordered)

C10_Witness ==
  /\ Len(ordered) = 2
  /\ selectedIndex = 1
  /\ expandedSet = Range(ordered)
  /\ dashPc = "exited"

\* C11: with E > 0 workflows expanded, the number of log lines allotted to an
\* expanded workflow is at most floor((H - fixed chrome) / E), the fixed
\* chrome being header, footer and the headers of all the workflows; with
\* E = 0 the allocation is 0.
C11_LayoutBound ==
  LET E == Cardinality(expandedSet)
      room == TerminalHeight(termRows) - HeaderHeight - FooterHeight
                - Len(ordered) * WorkflowHeaderHeight
  IN /\ E = 0 => LogHeightPerWorkflow(termRows, Len(ordered), E) = 0
     /\ \A w \in expandedSet :
          LinesToShow(LogHeight(w)) <= FloorDiv(room, E)

\* A tick has shown a line of an expanded workflow that has no room at all.
C11_Witness ==
  \E w \in expandedSet :
    /\ mounted
    /\ LogHeight(w) < 1
    /\ Len(logLines[w]) = 1

\* The row of w has been rendered.
Rendered(w) == status[w] # Undefined

\* C12: with a progress record for w, a project listed in completed_projects
\* is PASS, also when it is the current_project, and otherwise the
\* current_project is RUNNING, whatever the log holds; with the record
\* {current_project: web, completed_projects: [api]} and a log that does not
\* mention docs, api is PASS, web is RUNNING and docs is PENDING.
C12_RecordDecides ==
  \A w \in Kinds :
    Rendered(w) /\ Form(progressFile[w]) = "record" =>
      /\ \A i \in DOMAIN projects :
           IF Includes(progressFile[w].data.completed_projects, projects[i])
           THEN taskStatus[w][i] = Pass
           ELSE progressFile[w].data.current_project = projects[i] =>
                  taskStatus[w][i] = Running
      /\ /\ progressFile[w] = File(StaleProgress)
         /\ projects = <<"api", "web", "docs">>
         /\ logFile[w].exists => ~LogIncludes(SplitLines(logFile[w].data), "docs")
         => taskStatus[w] = <<Pass, Running, Pending>>

C12_Witness ==
  \E w \in Kinds :
    /\ Rendered(w)
    /\ progressFile[w] = File(StaleProgress)
    /\ logFile[w] = File(<<<<"text", 3>>, <<"text", 1>>>>)
    /\ taskStatus[w] = <<Pass, Running, Pending>>

\* The progress file of w says nothing usable about project: it does not
\* parse to an object, or the object names project neither in an array
\* completed_projects nor as a string current_project.
NoRecordOf(w, project) ==
  LET progress == getWorkflowProgress(progressFile[w])
  IN \/ ~Truthy(progress)
     \/ /\ HasCompleted(progress) =>
             ~Includes(progress.data.completed_projects, project)
        /\ HasCurrent(progress) => progress.data.current_project # project

\* C13: getProjectStatus never throws, whatever the progress file and the
\* log file hold, and returns PENDING when neither the progress file nor
\* the log says anything about the project.
C13_NeverThrows ==
  \A w \in Kinds :
    Rendered(w) =>
      \A i \in DOMAIN projects :
        /\ taskStatus[w][i] \in {Pass, Running, Pending}
        /\ /\ NoRecordOf(w, projects[i])
           /\ logFile[w].exists =>
                ~LogIncludes(SplitLines(logFile[w].data), projects[i])
           => taskStatus[w][i] = Pending

\* The progress file holds {} and the render has ended in an exception.
C13_Witness ==
  \E w \in Kinds :
    /\ Rendered(w)
    /\ Form(progressFile[w]) = "nofields"
    /\ taskStatus[w][1] = Thrown
    /\ dashPc = "crashed"

\* The name of project occurs in a line of the log, in any case, and a
\* completion keyword follows it in that line.
KeywordFollows(lines, project) ==
  \E n \in DOMAIN lines :
    \E i \in 0..(Len(lines[n]) - Len(Chars(project))) :
      /\ \A k \in 1..Len(Chars(project)) :
           Lower(lines[n][i + k]) = Lower(Chars(project)[k])
      /\ \E k \in (i + Len(Chars(project)) + 1)..Len(lines[n]) :
           /\ KeywordAt(lines[n], k)
           /\ \A j \in (i + Len(Chars(project)) + 1)..(k - 1) :
                lines[n][j] # CR

\* C14: when the progress file says nothing about a project, its status is
\* decided by the log alone, for every project name: PENDING if the log
\* cannot be read or does not hold the name, PASS if a completion keyword
\* follows the name, RUNNING otherwise.
C14_LogDecides ==
  \A w \in Kinds :
    Rendered(w) =>
      \A i \in DOMAIN projects :
        NoRecordOf(w, projects[i]) /\ taskStatus[w][i] # Thrown =>
          taskStatus[w][i] =
            IF ~logFile[w].exists THEN Pending
            ELSE IF ~LogIncludes(SplitLines(logFile[w].data), projects[i])
            THEN Pending
            ELSE IF KeywordFollows(SplitLines(logFile[w].data), projects[i])
            THEN Pass
            ELSE Running

\* The log holds "c++ done" and the row shows c++ as PENDING.
C14_Witness ==
  \E w \in Kinds :
    /\ Rendered(w)
    /\ ~progressFile[w].exists
    /\ projects = <<"c++">>
    /\ logFile[w] = File(<<<<"text", 5>>>>)
    /\ taskStatus[w] = <<Pending>>

\* C15: once the log file has been opened, a call of runWorkflowSession
\* that has ended, by returning or by throwing, has closed the log handle
\* exactly once.
C15_HandleReleased ==
  \A w \in Kinds :
    pc[w] \in {"returned", "threw"} /\ logHandle[w] # "none" =>
      logHandle[w] = "closed" /\ closeCount[w] = 1

\* The write of the resume delimiter has failed and the handle is open.
C15_Witness ==
  \E w \in Kinds :
    /\ pc[w] = "threw"
    /\ shouldResume[w]
    /\ logHandle[w] = "open"
    /\ closeCount[w] = 0
    /\ logFile[w] = logAtCall[w]

\* C16: main leaves its wait only when runAllWorkflows is over or the user
\* has quit, and it does leave it once either has happened, whether or not
\* the external sessions ever exit; the quit itself and main's step out of
\* the wait after a quit leave every session, process and status as it is.
C16_WaitStep ==
  /\ mainPc = "race" /\ mainPc' # "race" =>
       orchPc \in {"done", "rejected"} \/ dashPc = "exited"
  /\ dashPc = "rendering" /\ dashPc' = "exited" =>
       /\ mainPc' = mainPc
       /\ pc' = pc /\ proc' = proc /\ statusFile' = statusFile
  /\ mainPc = "race" /\ mainPc' = "done" =>
       pc' = pc /\ proc' = proc /\ statusFile' = statusFile

C16_WaitOver ==
  mainPc = "race" /\ (dashPc = "exited" \/ orchPc \in {"done", "rejected"})

C16_RaceEnds ==
  /\ [][C16_WaitStep]_vars
  /\ C16_WaitOver ~> mainPc # "race"

\* main has returned on a quit while a session still drains a live process.
C16_Witness ==
  /\ mainPc = "done"
  /\ dashPc = "exited"
  /\ orchPc = "join"
  /\ \E w \in selected :
       pc[w] = "drain" /\ proc[w] = "alive" /\ statusFile[w] = "RUNNING"

\* The characters sanitizeLogLine strips wherever they stand.
Stripped == ControlChars \cup {CR}

\* C17: what sanitizeLogLine returns holds no ESC, no carriage return and no
\* other stripped control character, and neither starts nor ends with white
\* space; it keeps a line that has none of these as it is, tabs inside it
\* included; and "\x1b[31merror\x1b[0m\r\n" gives "error". The lines the
\* dashboard shows are such results.
C17_Clean(line) ==
  /\ \A i \in DOMAIN line : line[i] \notin Stripped
  /\ line # <<>> => line[1] \notin WhiteSpace /\ line[Len(line)] \notin WhiteSpace

C17_Sanitized ==
  /\ sanitizeLogLine(ErrorText) = <<"e", "r", "r", "o", "r">>
  /\ \A w \in selected :
       /\ \A i \in DOMAIN logLines[w] : C17_Clean(logLines[w][i])
       /\ logFile[w].exists =>
            \A n \in DOMAIN SplitLines(logFile[w].data) :
              LET line == SplitLines(logFile[w].data)[n]
              IN /\ C17_Clean(sanitizeLogLine(line))
                 /\ C17_Clean(line) => sanitizeLogLine(line) = line

\* The tail shows "error" for the line of the example.
C17_Witness ==
  \E w \in selected :
    /\ logFile[w].data[1] = <<"raw", ErrorLine>>
    /\ logLines[w] = <<<<"e", "r", "r", "o", "r">>>>

\* C18: the status a row has obtained for its workflow is one of PENDING,
\* RUNNING, COMPLETED and FAILED in every state, also when it was read in
\* the middle of a rewrite of the status file.
C18_StatusValue ==
  \A w \in selected :
    Rendered(w) => status[w] \in {"PENDING", "RUNNING", "COMPLETED", "FAILED"}

\* The row has read the status file between the truncation and the write of
\* RUNNING, and shows an empty status.
C18_Witness ==
  \E w \in selected :
    /\ pc[w] = "statusWrite"
    /\ statusFile[w] = ""
    /\ status[w] = ""

\* The chunks of stream s in the log of w, in the order the log holds them.
StreamChunks(w, s) == SelectSeq(logFile[w].data, LAMBDA e : e[1] = s)

\* C19: the log of a session holds every chunk read from stdout and from
\* stderr, the chunks of each stream once each and in the order the stream
\* gave them (the chunk a drain task has in hand is the one still to come).
C19_EveryChunk ==
  \A w \in Kinds : \A s \in Streams :
    pc[w] # "idle" =>
      /\ StreamChunks(w, s) = [i \in 1..Len(StreamChunks(w, s)) |-> <<s, i>>]
      /\ Len(StreamChunks(w, s)) =
           emitted[w][s] - (IF chunk[w][s] # <<>> THEN 1 ELSE 0)

\* The call has returned success and a chunk read from stdout is not in
\* the log.
C19_Witness ==
  \E w \in Kinds :
    /\ pc[w] = "returned"
    /\ statusFile[w] = "COMPLETED"
    /\ emitted[w]["stdout"] = 2
    /\ StreamChunks(w, "stdout") = <<<<"stdout", 1>>>>
    /\ StreamChunks(w, "stderr") = <<<<"stderr", 1>>, <<"stderr", 2>>>>

\* The lines of the log of w, sanitized, without the empty ones.
Kept(w) ==
  LET all == Sanitized(SplitLines(logFile[w].data))
      idx == {i \in DOMAIN all : all[i] # <<>>}
  IN [all |-> all, idx |-> idx]

\* The last n of the kept lines of the log of w, in the order of the log.
ExpectedTail(w, n) ==
  LET all == Kept(w).all
      idx == Kept(w).idx
      last == {i \in idx : Cardinality({j \in idx : j >= i}) <= n}
      Nth(k) == CHOOSE i \in last : Cardinality({j \in last : j <= i}) = k
  IN [k \in 1..Cardinality(last) |-> all[Nth(k)]]

\* max(1, allocatedHeight - 2) for the height the row of w is given.
C20_Count(w) == IF LogHeight(w) - 2 >= 1 THEN LogHeight(w) - 2 ELSE 1

C20_TickStep ==
  \A w \in Kinds :
    TailTick(w) =>
      /\ logFile[w].exists => logLines'[w] = ExpectedTail(w, C20_Count(w))
      /\ ~logFile[w].exists => logLines'[w] = <<>>
      /\ dashPc' = "rendering"
      /\ w \in expandedSet'

\* The log of an expanded, ticking row cannot be read.
C20_Lost(w) ==
  /\ Live
  /\ dashPc = "rendering"
  /\ mounted
  /\ w \in selected
  /\ w \in expandedSet
  /\ ~logFile[w].exists

C21_Rest == <<superVars, sessionVars, procVars, fileVars, rowVars, dashPc>>

\* expandedSet differs from what it was in the membership of w alone.
C21_OnlyMember(w) ==
  \A v \in Kinds \cup {Undefined} :
    v # w => (v \in expandedSet' <=> v \in expandedSet)

C21_KeyStep ==
  LET w == ordered[selectedIndex + 1] IN
  /\ KeyToggle =>
        /\ w \in expandedSet' <=> w \notin expandedSet
        /\ C21_OnlyMember(w)
        /\ UNCHANGED <<selectedIndex, C21_Rest>>
  /\ KeyCollapse =>
        /\ w \notin expandedSet'
        /\ C21_OnlyMember(w)
        /\ UNCHANGED <<selectedIndex, C21_Rest>>
  /\ KeyExpandAll =>
        /\ expandedSet' = {ordered[i] : i \in 1..Len(ordered)}
        /\ UNCHANGED <<selectedIndex, C21_Rest>>
  /\ KeyCollapseAll =>
        /\ expandedSet' = {}
        /\ UNCHANGED <<selectedIndex, C21_Rest>>
  /\ (KeyUp \/ KeyDown) =>
        /\ UNCHANGED <<expandedSet, C21_Rest>>

\* C21: a key changes only its own field of the dashboard state: toggle
\* flips the membership of the selected workflow in expandedSet and of no
\* other, collapse removes that workflow and no other, expand-all makes
\* expandedSet the ordered selected list, collapse-all empties it, all four
\* leaving selectedIndex as it was; up and down leave expandedSet as it was;
\* no key changes anything else.
C21_KeyFrame == [][C21_KeyStep]_vars

\* The middle row of three was closed on its own: the rows around it are
\* still expanded and the selection is still on it.
C21_Witness ==
  /\ Len(ordered) = 3
  /\ selectedIndex = 1
  /\ expandedSet = {ordered[1], ordered[3]}

\* The positions of a call after cmd.spawn() has returned.
C22_Spawned == {"open", "marker", "drain", "finalOpen", "finalWrite", "returned"}

C22_Once ==
  \A w \in Kinds :
    /\ spawnCount[w] <= 1
    /\ pc[w] \in C22_Spawned => spawnCount[w] = 1
    /\ w \notin selected => pc[w] = "idle"
    /\ orchPc \in {"join", "restore", "done"} /\ w \in selected => pc[w] # "idle"

C22_NoSecondCall ==
  \A w \in Kinds :
    /\ pc'[w] = "check" /\ pc[w] # "check" => pc[w] = "idle"
    /\ pc[w] \in {"returned", "threw"} =>
          /\ pc'[w] = pc[w]
          /\ spawnCount'[w] = spawnCount[w]
          /\ statusFile'[w] = statusFile[w]

\* C22: nothing is retried: a call of runWorkflowSession spawns at most one
\* process, and exactly one once it is past cmd.spawn(), whatever the exit
\* code; runAllWorkflows calls runWorkflowSession once for each selected
\* workflow and for no other; a call that has ended is not begun again, so
\* the FAILED it wrote stays for the rest of the run.
C22_NoRetry == []C22_Once /\ [][C22_NoSecondCall]_vars

\* runAllWorkflows has completed with a workflow FAILED after one spawn.
C22_Witness ==
  /\ orchPc = "done"
  /\ \E w \in selected :
       /\ pc[w] = "returned"
       /\ exitCode[w] = 1
       /\ statusFile[w] = "FAILED"
       /\ spawnCount[w] = 1

\* The place of a workflow in WORKFLOW_ORDER.
C23_Place(w) == CHOOSE i \in DOMAIN WORKFLOW_ORDER : WORKFLOW_ORDER[i] = w

\* The workflows the selection names.
C23_Named == {w \in Kinds : \E i \in DOMAIN workflows : workflows[i] = w}

C23_Arranged ==
  /\ \A i \in DOMAIN ordered : ordered[i] \in C23_Named
  /\ \A w \in C23_Named : \E i \in DOMAIN ordered : ordered[i] = w
  /\ \A i, j \in DOMAIN ordered :
       i < j => C23_Place(ordered[i]) < C23_Place(ordered[j])
  /\ \A w \in Kinds : pc[w] # "idle" => w \in C23_Named
  /\ orchPc \in {"join", "restore", "done"} =>
       \A w \in C23_Named : pc[w] # "idle"

C23_StartStep ==
  (\E w \in Kinds : pc[w] = "idle" /\ pc'[w] # "idle") =>
    /\ \A w \in C23_Named : pc[w] = "idle" /\ pc'[w] = "check"
    /\ orchPc # "join"
    /\ orchPc' = "join"

\* C23: the workflows run and shown are the known kinds the selection
\* names, each once, in the order type, build, test, lint, whatever the
\* order of the selection and whatever else it holds; the order sequences
\* nothing: the sessions of all of them are started in one step, before
\* runAllWorkflows waits for any.
C23_FixedOrder == []C23_Arranged /\ [][C23_StartStep]_vars

\* A selection out of order with a line that names no workflow: both
\* processes run side by side, type listed first.
C23_Witness ==
  /\ workflows = <<"build", UnknownKind, "type">>
  /\ ordered = <<"type", "build">>
  /\ orchPc = "join"
  /\ proc["type"] = "alive"
  /\ proc["build"] = "alive"

C24_AliveRunning ==
  \A w \in Kinds :
    proc[w] = "alive" =>
      /\ statusFile[w] \notin {Absent, Unreadable}
      /\ Trim(statusFile[w]) = "RUNNING"

C24_EndStep ==
  \A w \in Kinds :
    /\ statusFile'[w] # statusFile[w] /\ pc[w] \notin {"statusOpen", "statusWrite"}
         => proc[w] = "exited"
    /\ proc[w] = "none" /\ proc'[w] = "alive"
         => Trim(statusFile[w]) = "RUNNING" /\ statusFile'[w] = statusFile[w]

\* C24: while the external process a session spawned is alive, the status
\* file of its workflow reads RUNNING: it reads RUNNING at the spawn (written
\* by a fresh start, found by a resume) and the session writes it again only
\* once the process has exited.
C24_RunningWhileAlive == []C24_AliveRunning /\ [][C24_EndStep]_vars

\* The process of a fresh start is alive over a status that was absent.
C24_Witness ==
  \E w \in Kinds :
    /\ proc[w] = "alive"
    /\ ~shouldResume[w]
    /\ statusAtCall[w] = Absent
    /\ statusFile[w] = "RUNNING"
    /\ emitted[w]["stdout"] > 0

\* The session is at or past its write of the terminal status.
C25_Ending(w) == pc[w] \in {"finalOpen", "finalWrite", "returned"}

C25_DrainsOver ==
  \A w \in Kinds :
    C25_Ending(w) =>
      /\ \A s \in Streams : drainPc[w][s] = "done" /\ chunk[w][s] = <<>>
      /\ proc[w] = "exited"
      /\ pc[w] = "returned" =>
            /\ statusFile[w] \in {"COMPLETED", "FAILED"}
            /\ logHandle[w] = "closed"

C25_LogStep ==
  \A w \in Kinds :
    /\ C25_Ending(w) => logFile'[w] = logFile[w]
    /\ pc'[w] = "finalOpen" /\ pc[w] # "finalOpen" => logFile'[w] = logFile[w]
    /\ statusFile'[w] \in {"COMPLETED", "FAILED"} /\ statusFile'[w] # statusFile[w]
         => C25_Ending(w)

\* C25: the session writes COMPLETED or FAILED only after both drain tasks
\* have ended and the process has exited, and from the start of that write
\* on it never writes to the log: the log a reader finds next to a
\* terminal status the session wrote is the final log.
C25_FinalLog == []C25_DrainsOver /\ [][C25_LogStep]_vars

\* A session has returned over a log that holds chunks of both streams.
C25_Witness ==
  \E w \in Kinds :
    /\ pc[w] = "returned"
    /\ statusFile[w] = "FAILED"
    /\ Len(StreamChunks(w, "stdout")) = 2
    /\ Len(StreamChunks(w, "stderr")) = 2

\* C26: the row of a workflow shows [RESUMED] only if the session of that
\* workflow in this run took the resume path: once the session has decided,
\* a marker on the row means shouldResume, however the mount effect's read
\* of the status file falls among the session's writes.
C26_MarkerMeansResumed ==
  \A w \in selected :
    ResumeMarker(w) /\ pc[w] \notin {"idle", "check"} => shouldResume[w]

\* The row of a fresh start, over a status file that did not exist when
\* the run began, shows [RESUMED] while its process runs.
C26_Witness ==
  \E w \in selected :
    /\ statusAtRun[w] = Absent
    /\ ~shouldResume[w]
    /\ proc[w] = "alive"
    /\ ResumeMarker(w)

\* C27: in every state of the dashboard the panel of an expanded workflow
\* holds at most max(1, allocatedHeight - 2) log lines, for the height the
\* row is given in that state.
C27_FitsNow ==
  \A w \in selected :
    w \in expandedSet => Len(logLines[w]) <= Max(1, LogHeight(w) - 2)

\* Two rows are expanded on a 24-row terminal with three workflows, three
\* rows high each, and one of them still holds the lines of a taller panel.
C27_Witness ==
  \E w \in selected :
    /\ termRows = UsualRows
    /\ Len(ordered) = 3
    /\ Cardinality(expandedSet) = 2
    /\ w \in expandedSet
    /\ Len(logLines[w]) > Max(1, LogHeight(w) - 2)

\* A fresh session of w has set the status to RUNNING.
C28_FreshRunning(w) ==
  /\ ~shouldResume[w]
  /\ pc[w] \in {"promptWrite", "spawn", "open", "drain", "finalOpen"}

\* The files of w without what an earlier run left: the log before the
\* session has opened it, the progress record the external tool of this
\* session has not written.
C28_OwnLog(w) ==
  IF logHandle[w] = "none" THEN NoFile(<<>>) ELSE logFile[w]

C28_OwnProgress(w) ==
  IF progressFile[w].exists /\ progressFile[w].data = StaleProgress
  THEN NoFile(NoProgress) ELSE progressFile[w]

C28_RenderStep ==
  \A w \in Kinds :
    RowRender(w) /\ C28_FreshRunning(w) =>
      \A i \in DOMAIN taskStatus'[w] :
        taskStatus'[w][i] \in {Pass, Running} =>
          taskStatus'[w][i] =
            getProjectStatus(projects[i], C28_OwnProgress(w), C28_OwnLog(w))

\* C28: in a fresh session of a workflow, from the write of RUNNING on, a
\* render gives a project PASS or RUNNING only as the files written during
\* the session give it: leaving out the log and the progress record of an
\* earlier run changes no PASS and no RUNNING.
C28_OwnData == [][C28_RenderStep]_vars

\* The row of a fresh session shows api passed and web running before the
\* process has been spawned, from the progress record of the earlier run.
C28_Witness ==
  \E w \in selected :
    /\ ~shouldResume[w]
    /\ pc[w] = "spawn"
    /\ statusFile[w] = "RUNNING"
    /\ status[w] = "RUNNING"
    /\ progressFile[w] = File(StaleProgress)
    /\ taskStatus[w] = <<Pass, Running>>

\* C29: main has printed its final report ("All workflows completed") only
\* if runAllWorkflows has completed: every selected status is COMPLETED or
\* FAILED and no external process of the run is alive.
C29_ReportAfterAll ==
  mainPc = "done" =>
    /\ orchPc = "done"
    /\ \A w \in selected : statusFile[w] \in Terminal /\ proc[w] # "alive"

\* After q main has printed the report while runAllWorkflows still waits
\* on a session whose process runs under the status RUNNING.
C29_Witness ==
  /\ mainPc = "done"
  /\ dashPc = "exited"
  /\ orchPc = "join"
  /\ \E w \in selected :
       /\ pc[w] = "drain"
       /\ proc[w] = "alive"
       /\ statusFile[w] = "RUNNING"

\* C30: a call of runWorkflowSession that has ended by throwing does not
\* leave the status of its workflow reading RUNNING with no live external
\* process, the state a later run takes for an abandoned session.
C30_NoFalseAbandon ==
  \A w \in Kinds :
    pc[w] = "threw" /\ proc[w] # "alive" => ~wasWorkflowAbandoned(statusFile[w])

\* cmd.spawn() threw in a fresh start: no process was ever spawned and the
\* status, absent before the call, reads RUNNING.
C30_Witness ==
  \E w \in Kinds :
    /\ pc[w] = "threw"
    /\ statusAtCall[w] = Absent
    /\ ~shouldResume[w]
    /\ spawnCount[w] = 0
    /\ proc[w] = "none"
    /\ promptWrites[w] = 1
    /\ statusFile[w] = "RUNNING"

\* The external process of w, if w is selected, has exited.
C31_Exited(w) == w \notin selected \/ proc[w] = "exited"

\* The call for w, if w is selected, has returned over a terminal status.
C31_Returned(w) ==
  w \notin selected \/ (pc[w] = "returned" /\ statusFile[w] \in Terminal)

C31_AllEnd ==
  (\A w \in Offered : <>C31_Exited(w)) =>
    <>(orchPc = "done" /\ \A w \in Offered : C31_Returned(w))

C31_WaitsForAll ==
  [](orchPc \in {"restore", "done"} => \A w \in Offered : C31_Exited(w))

C31_EachEnds ==
  \A w \in Offered : <>C31_Exited(w) => <>C31_Returned(w)

\* C31: if the external process of every selected workflow exits, every
\* call of runWorkflowSession returns and runAllWorkflows completes; while
\* a process has not exited runAllWorkflows has not completed, and the
\* session of every workflow whose own process exits still returns over a
\* terminal status, whatever the other processes do.
C31_Termination == C31_AllEnd /\ C31_WaitsForAll /\ C31_EachEnds

\* The process of a session has exited, and the session, having thrown at
\* Deno.open of its log, has ended without returning.
C31_Witness ==
  \E w \in selected :
    /\ pc[w] = "threw"
    /\ spawnCount[w] = 1
    /\ proc[w] = "exited"
    /\ logHandle[w] = "none"
    /\ orchPc = "rejected"

====
